---- MODULE Spec2Model ----
(***************************************************************************)
(* The class-component / host-root update queue of the reconciler          *)
(* (ReactUpdateQueue, src/src/App.js lines 306-1155): a pair of fibers     *)
(* (current and work-in-progress), their update queues, the shared pending *)
(* list and the heap of update objects the queues link together.           *)
(***************************************************************************)
EXTENDS Integers, Sequences, FiniteSets, TLC

\* ------------------------------------------------------------------ bounds
\* Number of enqueueUpdate calls explored.
MaxUpdates == 3
\* Number of processUpdateQueue passes explored.
MaxPasses == 2
\* The same two bounds for the letter-appending queues of SpecLetters.
MaxLetters == 4
MaxLetterPasses == 3
\* The same two bounds for SpecRoot, which adds the root and unmounting.
MaxRootUpdates == 2
MaxRootPasses == 2
\* The same two bounds for SpecTags, which enqueues updates of every tag.
MaxTagUpdates == 2
MaxTagPasses == 2
\* The same two bounds for SpecReentrant, whose updater functions enqueue.
MaxReentrantUpdates == 2
MaxReentrantPasses == 2
\* The same two bounds for SpecCommit, which calls commitUpdateQueue again.
MaxCommitUpdates == 3
MaxCommitPasses == 2
\* The same two bounds for SpecNull, whose partial states may be null.
MaxNullUpdates == 2
MaxNullPasses == 2
\* SpecLazy: the number of lazy components, of _init calls on each and of
\* callbacks each thenable invokes after `then` has returned.
NumLazy == 2
MaxInits == 3
MaxSettles == 2
\* Number of distinct lane bits the updates and render passes draw from.
NumLanes == 2
\* Number of lane bits of the root in SpecEntangle (bit 1 is the sync lane,
\* the others are transition lanes).
NumRootLanes == 3
\* SpecTree: the longest element list, the number of distinct keys, the number
\* of reconciliations of the child list, the number of DOM containers and the
\* number of render calls explored.
MaxChildren == 3
MaxKeys == 3
MaxReconciles == 2
NumContainers == 2
MaxRenders == 3

\* ------------------------------------------------------------------- lanes
\* A lane set is a bitmask; it is represented by the set of its bit indices.
LaneBits == 1..NumLanes
NoLanes == {}
NoLane == {}
mergeLanes(a, b) == a \cup b
intersectLanes(a, b) == a \cap b
\* The lowest lane is the synchronous lane; the others are transition lanes.
RootLaneBits == 1..NumRootLanes
TransitionLanes == RootLaneBits \ {1}
isTransitionLane(lane) == intersectLanes(lane, TransitionLanes) # NoLanes
isSubsetOfLanes(set, subset) == intersectLanes(set, subset) = subset

\* ------------------------------------------------------------------- flags
\* fiber.flags is a bitfield; it is represented by the set of its flag names.
Callback == "Callback"
ShouldCapture == "ShouldCapture"
DidCapture == "DidCapture"
NoFlags == {}

\* -------------------------------------------------------------- update tags
UpdateState == 0
ReplaceState == 1
ForceUpdate == 2
CaptureUpdate == 3

\* ------------------------------------------------------------------ values
\* A null pointer / null reference.
Null == 0
\* A state is a JavaScript object: a function from its own keys to values.
\* `count` holds a number, `log` a string (a sequence of letters).
EmptyObj == [k \in {} |-> 0]
\* The value null where a state is expected.
NullState == [k \in {"$null"} |-> 0]
\* queue.effects is null or a non-empty array of update references; null is
\* represented by the empty sequence.
NoEffects == <<>>
\* The JavaScript value NaN (undefined + 1), absorbing under addition.
NaN == 0 - 1
ObjAssign(prev, partial) ==
    [k \in (DOMAIN prev) \cup (DOMAIN partial) |->
        IF k \in DOMAIN partial THEN partial[k] ELSE prev[k]]

\* A payload is null, a partial state object, or an updater function.
\*   kind "null": payload === null
\*   kind "obj" : a partial state object, arg
\*   kind "inc" : prevState => ({count: prevState.count + arg.count})
\*   kind "app" : prevState => ({log: prevState.log + arg.log})
\*   kind "nul" : prevState => null
\*   kind "undefined": payload === undefined
\*   kind "und" : prevState => undefined
\*   kind "enq" : prevState => { this.setState(s => ({log: s.log + letter}));
\*                              return {log: prevState.log + arg.log} }
IsFunction(payload) == payload.kind \in {"inc", "app", "nul", "und", "enq"}
Plus(a, b) == IF a = NaN \/ b = NaN THEN NaN ELSE a + b
CountOf(s) == IF "count" \in DOMAIN s THEN s["count"] ELSE NaN
LogOf(s) == IF "log" \in DOMAIN s THEN s["log"] ELSE <<"undefined">>
\* payload.call(instance, prevState, nextProps); "nul" returns null and "und"
\* undefined, which the caller sees as the record [isNull |-> TRUE].
CallPayload(payload, prevState, nextProps) ==
    CASE payload.kind = "inc" ->
            [isNull |-> FALSE,
             val |-> [k \in {"count"} |-> Plus(CountOf(prevState), payload.arg["count"])]]
      [] payload.kind \in {"app", "enq"} ->
            [isNull |-> FALSE,
             val |-> [k \in {"log"} |-> LogOf(prevState) \o payload.arg["log"]]]
      [] OTHER -> [isNull |-> TRUE, val |-> EmptyObj]

VARIABLES
    heap,            \* the update objects: heap[i] is the object with reference i
    queues,          \* the UpdateQueue objects, by reference 1..2
    shared,          \* the SharedQueue object created by initializeUpdateQueue
    fibers,          \* the two fibers of the instance, by reference 1..2
    current,         \* the committed fiber (root.current side), or Null
    workInProgress,  \* the fiber being rendered, or Null
    hasForceUpdate,  \* the module-level flag of ReactUpdateQueue
    root,            \* the FiberRoot's pendingLanes and entangledLanes
    mode,            \* fiber.mode: "legacy" or "concurrent"
    clock,           \* number of updates created so far (their eventTime)
    passes,          \* number of processUpdateQueue calls so far
    interleavedQueues, \* the queues registered by pushInterleavedQueue
    called,          \* the callbacks commitUpdateQueue has invoked, in order
    history,         \* the updates in the order they were linked into the pending list
    origState,       \* memoizedState when initializeUpdateQueue ran
    last,            \* what the most recent operation was and what it did
    children,        \* the child fibers of one parent fiber and their reconciliation
    container,       \* the DOM containers rendered into and the roots created
    lazies           \* the lazy components: their payloads and their thenables

vars == <<heap, queues, shared, fibers, current, workInProgress, hasForceUpdate,
          root, mode, clock, passes, interleavedQueues, called, history, origState, last,
          children, container, lazies>>

\* The variables of the child reconciliation, of the DOM containers and of
\* the lazy components.
treeVars == <<children, container, lazies>>
\* The variables of the update queue.
queueVars == <<heap, queues, shared, fibers, current, workInProgress, hasForceUpdate,
                root, mode, clock, passes, interleavedQueues, called, history,
                origState, last>>

\* --------------------------------------------------------------- the heap
\* Follows `next` from update reference u to the end of a null-terminated
\* list (or once around a circular list that starts at `stop`), at most n
\* steps: the references visited, in order.
RECURSIVE ListFrom(_, _, _, _)
ListFrom(h, u, stop, n) ==
    IF u = Null \/ n = 0 THEN <<>>
    ELSE IF h[u].next = stop THEN <<u>>
    ELSE <<u>> \o ListFrom(h, h[u].next, stop, n - 1)

\* The base list of queue q: firstBaseUpdate, then `next` until null.
BaseList(h, q) == ListFrom(h, q.firstBaseUpdate, Null, Len(h))
\* The circular list whose last element is `lastU`, read from lastU.next
\* round to lastU.
CircularList(h, lastU) ==
    IF lastU = Null THEN <<>> ELSE ListFrom(h, h[lastU].next, h[lastU].next, Len(h))
PendingList(h, sh) == CircularList(h, sh.pending)
InterleavedList(h, sh) == CircularList(h, sh.interleaved)

EventTimes(h, refs) == [i \in 1..Len(refs) |-> h[refs[i]].eventTime]

\* ------------------------------------------------------------ constructors
\* What the host container shows before the first commit.
NoContent == <<>>

EmptyQueue ==
    [baseState |-> EmptyObj, firstBaseUpdate |-> Null, lastBaseUpdate |-> Null,
     shared |-> Null, effects |-> <<>>]
NoFiber ==
    [exists |-> FALSE, memoizedState |-> EmptyObj, lanes |-> NoLanes,
     flags |-> NoFlags, updateQueue |-> Null, alternate |-> Null]
NoOp == [op |-> "none"]

\* The states a component starts from.
InitStates == {[k \in {"count"} |-> 0]}
LetterInitStates == {[k \in {"log"} |-> <<>>]}
TagInitStates == {[count |-> 0, log |-> <<>>]}
Modes == {"legacy", "concurrent"}

\* The letter the n-th update appends.
Letter(n) == <<"A", "B", "C", "D", "E", "F", "G", "H", "I", "J", "K", "L">>[n]

\* What the callers of enqueueUpdate put in an update: tag, payload, callback.
LetterKinds(n) ==
    { [tag |-> UpdateState, payload |-> [kind |-> "app", arg |-> [k \in {"log"} |-> <<Letter(n)>>]],
       hasCallback |-> FALSE] }
\* Letter updates, and updates whose updater function calls setState.
ReentrantKinds(n) ==
    LetterKinds(n) \cup
    { [tag |-> UpdateState, payload |-> [kind |-> "enq", arg |-> [k \in {"log"} |-> <<Letter(n)>>]],
       hasCallback |-> FALSE] }
UpdateKinds(n) ==
    LetterKinds(n) \cup
    {
      [tag |-> UpdateState, payload |-> [kind |-> "obj", arg |-> [k \in {"count"} |-> 1]],
       hasCallback |-> TRUE],
      [tag |-> UpdateState, payload |-> [kind |-> "inc", arg |-> [k \in {"count"} |-> 1]],
       hasCallback |-> FALSE] }

\* Updates of the tags setState, replaceState and forceUpdate create.
TagKinds(n) ==
    {
      [tag |-> UpdateState, payload |-> [kind |-> "obj", arg |-> [k \in {"count"} |-> 1]],
       hasCallback |-> TRUE],
      [tag |-> UpdateState,
       payload |-> [kind |-> "app", arg |-> [k \in {"log"} |-> <<Letter(n)>>]],
       hasCallback |-> FALSE],
      [tag |-> ReplaceState, payload |-> [kind |-> "obj", arg |-> [k \in {"count"} |-> 1]],
       hasCallback |-> FALSE],
      [tag |-> ReplaceState, payload |-> [kind |-> "inc", arg |-> [k \in {"count"} |-> 1]],
       hasCallback |-> FALSE],
      [tag |-> ForceUpdate, payload |-> [kind |-> "null", arg |-> EmptyObj],
       hasCallback |-> FALSE] }

\* Updates whose partial state is null or undefined, as a payload or as the
\* value an updater function returns, and one that sets the count.
NullKinds(n) ==
    {
      [tag |-> UpdateState, payload |-> [kind |-> "null", arg |-> EmptyObj],
       hasCallback |-> TRUE],
      [tag |-> UpdateState, payload |-> [kind |-> "undefined", arg |-> EmptyObj],
       hasCallback |-> FALSE],
      [tag |-> UpdateState, payload |-> [kind |-> "nul", arg |-> EmptyObj],
       hasCallback |-> FALSE],
      [tag |-> UpdateState, payload |-> [kind |-> "und", arg |-> EmptyObj],
       hasCallback |-> TRUE],
      [tag |-> UpdateState, payload |-> [kind |-> "obj", arg |-> [k \in {"count"} |-> 1]],
       hasCallback |-> FALSE] }
CaptureNullKinds(n) ==
    {
      [tag |-> CaptureUpdate, payload |-> [kind |-> "null", arg |-> EmptyObj],
       hasCallback |-> FALSE],
      [tag |-> CaptureUpdate, payload |-> [kind |-> "und", arg |-> EmptyObj],
       hasCallback |-> FALSE] }

\* The updates an error boundary captures: a partial state or an updater.
CaptureKinds(n) ==
    {
      [tag |-> CaptureUpdate, payload |-> [kind |-> "obj", arg |-> [k \in {"count"} |-> 1]],
       hasCallback |-> FALSE],
      [tag |-> CaptureUpdate,
       payload |-> [kind |-> "app", arg |-> [k \in {"log"} |-> <<Letter(n)>>]],
       hasCallback |-> FALSE] }

\* createUpdate(eventTime, lane), with the fields its caller then sets.
createUpdate(eventTime, lane, kind) ==
    [eventTime |-> eventTime, lane |-> lane,
     tag |-> kind.tag, payload |-> kind.payload,
     callback |-> IF kind.hasCallback THEN eventTime ELSE Null,
     next |-> Null]

\* ------------------------------------------------- the tree: initial values
\* One parent fiber without children, nothing being reconciled.
NoChildren ==
    [current |-> <<>>, work |-> <<>>, deletions |-> <<>>, elements |-> <<>>,
     rendering |-> FALSE, nextId |-> 1, count |-> 0]
\* The DOM containers before any render call: no _reactRootContainer, no
\* fiber root created, updateContainer never called.
NoContainers ==
    [dom |-> [c \in 1..NumContainers |-> [_reactRootContainer |-> Null]],
     roots |-> <<>>, calls |-> <<>>]

\* ------------------------------------------------------------------ ReactLazy
Uninitialized == -1
Pending == 0
Resolved == 1
Rejected == 2

\* What _result holds before the first _init call, and while the thenable is
\* pending.
Ctor == "ctor"
Thenable == "thenable"
\* lazy(ctor): the payload of a new lazy component.
lazy(ctor) == [_status |-> Uninitialized, _result |-> ctor]

\* The lazy components after lazy(ctor) created them: no _init call yet.
NoLazies ==
    [payload |-> [c \in 1..NumLazy |-> lazy(Ctor)],
     ctorCalls |-> [c \in 1..NumLazy |-> 0],
     thenCalls |-> [c \in 1..NumLazy |-> 0],
     inits |-> [c \in 1..NumLazy |-> 0],
     settles |-> [c \in 1..NumLazy |-> 0],
     last |-> [op |-> "none"]]

InitFrom(states) ==
    /\ heap = <<>>
    /\ queues = [q \in 1..2 |-> EmptyQueue]
    /\ shared = [pending |-> Null, interleaved |-> Null, lanes |-> NoLanes]
    /\ \E s \in states :
          /\ fibers = [f \in 1..2 |->
                IF f = 1 THEN [NoFiber EXCEPT !.exists = TRUE, !.memoizedState = s]
                ELSE NoFiber]
          /\ origState = s
    /\ current = Null
    /\ workInProgress = 1
    /\ hasForceUpdate = FALSE
    /\ root = [pendingLanes |-> NoLanes, entangledLanes |-> NoLanes,
               containerInfo |-> NoContent]
    /\ mode \in Modes
    /\ clock = 0
    /\ passes = 0
    /\ interleavedQueues = <<>>
    /\ called = <<>>
    /\ history = <<>>
    /\ last = NoOp
    /\ children = NoChildren
    /\ container = NoContainers
    /\ lazies = NoLazies

Init == InitFrom(InitStates)
InitLetters == InitFrom(LetterInitStates)
InitTags == InitFrom(TagInitStates)

\* ------------------------------------------------- initializeUpdateQueue
\* initializeUpdateQueue with a base state that is not fiber.memoizedState.
initializeUpdateQueueBlank(f) ==
    /\ fibers[f].exists
    /\ fibers[f].updateQueue = Null
    /\ f = workInProgress
    /\ current = Null
    /\ queues' = [queues EXCEPT ![1] =
            [baseState |-> EmptyObj,
             firstBaseUpdate |-> Null,
             lastBaseUpdate |-> Null,
             shared |-> 1,
             effects |-> NoEffects]]
    /\ shared' = [pending |-> Null, interleaved |-> Null, lanes |-> NoLanes]
    /\ fibers' = [fibers EXCEPT ![f].updateQueue = 1]
    /\ last' = [op |-> "initialize"]
    /\ UNCHANGED <<heap, current, workInProgress, hasForceUpdate, root, mode, treeVars, clock,
                   passes, interleavedQueues, called, history, origState>>

initializeUpdateQueue(f) ==
    /\ fibers[f].exists
    /\ fibers[f].updateQueue = Null
    /\ f = workInProgress
    /\ current = Null
    /\ queues' = [queues EXCEPT ![1] =
            [baseState |-> fibers[f].memoizedState,
             firstBaseUpdate |-> Null,
             lastBaseUpdate |-> Null,
             shared |-> 1,
             effects |-> NoEffects]]
    /\ shared' = [pending |-> Null, interleaved |-> Null, lanes |-> NoLanes]
    /\ fibers' = [fibers EXCEPT ![f].updateQueue = 1]
    /\ last' = [op |-> "initialize"]
    /\ UNCHANGED <<heap, current, workInProgress, hasForceUpdate, root, mode, treeVars, clock,
                   passes, interleavedQueues, called, history, origState>>

\* ---------------------------------------------------------- enqueueUpdate
\* isInterleavedUpdate(fiber, lane): a render of this root is in progress and
\* the fiber is in concurrent mode.
isInterleavedUpdate(f, lane) ==
    /\ workInProgress # Null
    /\ current # Null
    /\ mode = "concurrent"

\* pushInterleavedQueue(queue)
pushInterleavedQueue(sharedRef) == Append(interleavedQueues, sharedRef)

\* EnqueueLinked that puts every update on the pending list, also while a
\* render is in progress.
EnqueueLinkedOnPending(h, sh, update, interleavedNow) ==
    IF sh.pending = Null THEN
        [heap |-> Append(h, [update EXCEPT !.next = Len(h) + 1]),
         shared |-> [sh EXCEPT !.pending = Len(h) + 1],
         pushed |-> FALSE]
    ELSE
        [heap |-> [Append(h, [update EXCEPT !.next = h[sh.pending].next])
                      EXCEPT ![sh.pending].next = Len(h) + 1],
         shared |-> [sh EXCEPT !.pending = Len(h) + 1],
         pushed |-> FALSE]

\* EnqueueLinked that leaves shared.pending on the old last update, so that the
\* new update becomes the first of the circular list.
EnqueueLinkedInFront(h, sh, update, interleavedNow) ==
    IF sh.pending = Null \/ interleavedNow THEN
        [heap |-> Append(h, [update EXCEPT !.next = Len(h) + 1]),
         shared |-> IF interleavedNow THEN [sh EXCEPT !.interleaved = Len(h) + 1]
                    ELSE [sh EXCEPT !.pending = Len(h) + 1],
         pushed |-> interleavedNow]
    ELSE
        [heap |-> [Append(h, [update EXCEPT !.next = h[sh.pending].next])
                      EXCEPT ![sh.pending].next = Len(h) + 1],
         shared |-> sh,
         pushed |-> FALSE]

\* The body of enqueueUpdate once fiber.updateQueue is known to be non-null:
\* the heap and the shared queue after linking in the new object `update`.
EnqueueLinked(h, sh, update, interleavedNow) ==
    LET ref == Len(h) + 1 IN
    IF interleavedNow THEN
        LET interleaved == sh.interleaved IN
        IF interleaved = Null THEN
            [heap |-> Append(h, [update EXCEPT !.next = ref]),
             shared |-> [sh EXCEPT !.interleaved = ref],
             pushed |-> TRUE]
        ELSE
            [heap |-> [Append(h, [update EXCEPT !.next = h[interleaved].next])
                          EXCEPT ![interleaved].next = ref],
             shared |-> [sh EXCEPT !.interleaved = ref],
             pushed |-> FALSE]
    ELSE
        LET pending == sh.pending IN
        IF pending = Null THEN
            [heap |-> Append(h, [update EXCEPT !.next = ref]),
             shared |-> [sh EXCEPT !.pending = ref],
             pushed |-> FALSE]
        ELSE
            [heap |-> [Append(h, [update EXCEPT !.next = h[pending].next])
                          EXCEPT ![pending].next = ref],
             shared |-> [sh EXCEPT !.pending = ref],
             pushed |-> FALSE]

HistoryEntry(update) ==
    [eventTime |-> update.eventTime, lane |-> update.lane, tag |-> update.tag,
     payload |-> update.payload, callback |-> update.callback]
HistoryEntries(h, refs) == [i \in 1..Len(refs) |-> HistoryEntry(h[refs[i]])]

\* The assignments enqueueUpdate makes once the update object is linked in.
EnqueueEffects(f, update, inter, r) ==
    /\ heap' = r.heap
    /\ shared' = r.shared
    /\ interleavedQueues' =
          IF r.pushed THEN pushInterleavedQueue(queues[fibers[f].updateQueue].shared)
          ELSE interleavedQueues
    /\ clock' = clock + 1
    /\ history' = IF inter THEN history ELSE Append(history, HistoryEntry(update))
    /\ last' = [op |-> "enqueue", linked |-> TRUE, interleaved |-> inter]
    /\ UNCHANGED <<queues, fibers, current, workInProgress, hasForceUpdate,
                   root, mode, treeVars, passes, called, origState>>

EnqueueOn(f, update, inter) ==
    EnqueueEffects(f, update, inter, EnqueueLinked(heap, shared, update, inter))

\* enqueueUpdate without the early return on a null updateQueue.
enqueueUpdateUnchecked(f, lane, kind) ==
    /\ fibers[f].exists
    /\ EnqueueOn(f, createUpdate(clock + 1, lane, kind), isInterleavedUpdate(f, lane))

enqueueUpdate(f, lane, kind) ==
    /\ fibers[f].exists
    /\ IF fibers[f].updateQueue = Null THEN
          \* Only occurs if the fiber has been unmounted.
          /\ last' = [op |-> "enqueue", linked |-> FALSE, interleaved |-> FALSE]
          /\ UNCHANGED <<heap, queues, shared, fibers, current, workInProgress,
                         hasForceUpdate, root, mode, treeVars, clock, passes,
                         interleavedQueues, called, history, origState>>
       ELSE
          EnqueueOn(f, createUpdate(clock + 1, lane, kind), isInterleavedUpdate(f, lane))

\* ------------------------------------------------------ getStateFromUpdate
\* PartialState that never calls an updater function with the previous state.
PartialStateUncalled(payload, prevState, nextProps) ==
    [isNull |-> payload.kind \in {"null", "undefined"}, val |-> payload.arg]

\* The value of `partialState` in the UpdateState case.
PartialState(payload, prevState, nextProps) ==
    IF IsFunction(payload)
    THEN CallPayload(payload, prevState, nextProps)
    ELSE [isNull |-> payload.kind \in {"null", "undefined"}, val |-> payload.arg]

\* IsNoOp that treats no partial state as a no-op.
IsNoOpNever(partialState) == FALSE

\* Null and undefined are treated as no-ops: the call returns prevState itself
\* and allocates no object.
IsNoOp(partialState) == partialState.isNull

\* MergePartialState that returns the partial state alone.
MergePartialStateAlone(prevState, partialState) ==
    IF partialState.isNull THEN prevState
    ELSE partialState.val

\* Null and undefined are treated as no-ops; otherwise the partial state is
\* merged into a copy of the previous state.
MergePartialState(prevState, partialState) ==
    IF IsNoOp(partialState) THEN prevState
    ELSE ObjAssign(prevState, partialState.val)

\* ReplacedState that merges the payload into the previous state.
ReplacedStateMerged(payload, prevState, nextProps) ==
    MergePartialState(prevState, PartialState(payload, prevState, nextProps))

\* The state a ReplaceState update produces.
ReplacedState(payload, prevState, nextProps) ==
    IF IsFunction(payload) THEN
        IF payload.kind \in {"nul", "und"} THEN NullState
        ELSE CallPayload(payload, prevState, nextProps).val
    ELSE
        IF payload.kind \in {"null", "undefined"} THEN NullState ELSE payload.arg

\* getStateFromUpdate whose ForceUpdate case does not set hasForceUpdate.
getStateFromUpdateUnforced(flags, force, update, prevState, nextProps, instance) ==
    CASE update.tag = ReplaceState ->
            [state |-> ReplacedState(update.payload, prevState, nextProps),
             flags |-> flags, force |-> force, same |-> FALSE]
      [] update.tag = CaptureUpdate ->
            [state |-> MergePartialState(prevState,
                           PartialState(update.payload, prevState, nextProps)),
             flags |-> (flags \ {ShouldCapture}) \cup {DidCapture},
             force |-> force,
             same |-> IsNoOp(PartialState(update.payload, prevState, nextProps))]
      [] update.tag = UpdateState ->
            [state |-> MergePartialState(prevState,
                           PartialState(update.payload, prevState, nextProps)),
             flags |-> flags, force |-> force,
             same |-> IsNoOp(PartialState(update.payload, prevState, nextProps))]
      [] OTHER -> [state |-> prevState, flags |-> flags, force |-> force, same |-> TRUE]

\* getStateFromUpdate whose CaptureUpdate case sets DidCapture and leaves
\* ShouldCapture set.
getStateFromUpdateStillCapturing(flags, force, update, prevState, nextProps, instance) ==
    CASE update.tag = ReplaceState ->
            [state |-> ReplacedState(update.payload, prevState, nextProps),
             flags |-> flags, force |-> force, same |-> FALSE]
      [] update.tag = CaptureUpdate ->
            [state |-> MergePartialState(prevState,
                           PartialState(update.payload, prevState, nextProps)),
             flags |-> flags \cup {DidCapture},
             force |-> force,
             same |-> IsNoOp(PartialState(update.payload, prevState, nextProps))]
      [] update.tag = UpdateState ->
            [state |-> MergePartialState(prevState,
                           PartialState(update.payload, prevState, nextProps)),
             flags |-> flags, force |-> force,
             same |-> IsNoOp(PartialState(update.payload, prevState, nextProps))]
      [] update.tag = ForceUpdate ->
            [state |-> prevState, flags |-> flags, force |-> TRUE, same |-> TRUE]
      [] OTHER -> [state |-> prevState, flags |-> flags, force |-> force, same |-> TRUE]

\* Returns the next state, the fiber's flags and the hasForceUpdate flag as
\* the call leaves them.
getStateFromUpdate(flags, force, update, prevState, nextProps, instance) ==
    CASE update.tag = ReplaceState ->
            [state |-> ReplacedState(update.payload, prevState, nextProps),
             flags |-> flags, force |-> force, same |-> FALSE]
      [] update.tag = CaptureUpdate ->
            [state |-> MergePartialState(prevState,
                           PartialState(update.payload, prevState, nextProps)),
             flags |-> (flags \ {ShouldCapture}) \cup {DidCapture},
             force |-> force,
             same |-> IsNoOp(PartialState(update.payload, prevState, nextProps))]
      [] update.tag = UpdateState ->
            [state |-> MergePartialState(prevState,
                           PartialState(update.payload, prevState, nextProps)),
             flags |-> flags, force |-> force,
             same |-> IsNoOp(PartialState(update.payload, prevState, nextProps))]
      [] update.tag = ForceUpdate ->
            [state |-> prevState, flags |-> flags, force |-> TRUE, same |-> TRUE]
      [] OTHER -> [state |-> prevState, flags |-> flags, force |-> force, same |-> TRUE]

\* ------------------------------------------------------ processUpdateQueue
\* The clone of an update that goes onto the new base list.
CloneUpdate(update, lane) ==
    [eventTime |-> update.eventTime, lane |-> lane,
     tag |-> update.tag, payload |-> update.payload,
     callback |-> update.callback, next |-> Null]

\* AppendToNewBase that starts the new base list again at the clone.
AppendToNewBaseTruncating(w, clone) ==
    [w EXCEPT !.heap = Append(w.heap, clone),
              !.newFirstBaseUpdate = Len(w.heap) + 1,
              !.newLastBaseUpdate = Len(w.heap) + 1]

\* newLastBaseUpdate = newLastBaseUpdate.next = clone
AppendToNewBase(w, clone) ==
    [w EXCEPT !.heap = [Append(w.heap, clone)
                           EXCEPT ![w.newLastBaseUpdate].next = Len(w.heap) + 1],
              !.newLastBaseUpdate = Len(w.heap) + 1]

\* SkipUpdate that does not merge the lane of the skipped update into newLanes.
SkipUpdateLosingLane(w, update) ==
    IF w.newLastBaseUpdate = Null THEN
        [w EXCEPT !.heap = Append(w.heap, CloneUpdate(update, update.lane)),
                  !.newFirstBaseUpdate = Len(w.heap) + 1,
                  !.newLastBaseUpdate = Len(w.heap) + 1,
                  !.newBaseState = w.newState,
                  !.skipped = Append(w.skipped, w.update)]
    ELSE
        [AppendToNewBase(w, CloneUpdate(update, update.lane))
            EXCEPT !.skipped = Append(w.skipped, w.update)]

\* SkipUpdate with the new base state taken at every skip, not only the first.
SkipUpdateRebasing(w, update) ==
    IF w.newLastBaseUpdate = Null THEN
        [w EXCEPT !.heap = Append(w.heap, CloneUpdate(update, update.lane)),
                  !.newFirstBaseUpdate = Len(w.heap) + 1,
                  !.newLastBaseUpdate = Len(w.heap) + 1,
                  !.newBaseState = w.newState,
                  !.newLanes = mergeLanes(w.newLanes, update.lane),
                  !.skipped = Append(w.skipped, w.update)]
    ELSE
        [AppendToNewBase(w, CloneUpdate(update, update.lane))
            EXCEPT !.newBaseState = w.newState,
                   !.newLanes = mergeLanes(w.newLanes, update.lane),
                   !.skipped = Append(w.skipped, w.update)]

\* The update is skipped: it is cloned onto the new base list, the first skip
\* fixes the new base state, and its lane is merged into the remaining lanes.
SkipUpdate(w, update) ==
    IF w.newLastBaseUpdate = Null THEN
        [w EXCEPT !.heap = Append(w.heap, CloneUpdate(update, update.lane)),
                  !.newFirstBaseUpdate = Len(w.heap) + 1,
                  !.newLastBaseUpdate = Len(w.heap) + 1,
                  !.newBaseState = w.newState,
                  !.newLanes = mergeLanes(w.newLanes, update.lane),
                  !.skipped = Append(w.skipped, w.update)]
    ELSE
        [AppendToNewBase(w, CloneUpdate(update, update.lane))
            EXCEPT !.newLanes = mergeLanes(w.newLanes, update.lane),
                   !.skipped = Append(w.skipped, w.update)]

\* CarryOver that forgets the applied update: it is not put on the new base list.
CarryOverDropped(w, update) == w

\* CarryOver whose clone keeps the lane of the update instead of NoLane.
CarryOverKeepingLane(w, update) ==
    IF w.newLastBaseUpdate # Null
    THEN AppendToNewBase(w, CloneUpdate(update, update.lane))
    ELSE w

\* An update with sufficient priority is carried over, as a NoLane clone,
\* when an earlier update was skipped.
CarryOver(w, update) ==
    IF w.newLastBaseUpdate # Null
    THEN AppendToNewBase(w, CloneUpdate(update, NoLane))
    ELSE w

\* newState = getStateFromUpdate(...)
Applied(w, r) ==
    [w EXCEPT !.newState = r.state, !.flags = r.flags, !.hasForceUpdate = r.force,
              !.applied = Append(w.applied, w.update),
              !.same = Append(w.same, r.same)]

\* QueueCallback that queues every applied update, with or without a callback.
QueueCallbackAlways(w, update) ==
    [w EXCEPT !.flags = w.flags \cup {Callback},
              !.effects = Append(w.effects, w.update)]

\* The callback of an applied update is queued on queue.effects.
QueueCallback(w, update) ==
    IF update.callback # Null
    THEN [w EXCEPT !.flags = w.flags \cup {Callback},
                   !.effects = Append(w.effects, w.update)]
    ELSE w

\* The lane of an update scheduled from inside an updater function.
ReentrantLane == {1}
\* Whether getStateFromUpdate calls the payload of update, and the payload is
\* an updater function that schedules an update.
CallsSetState(update) ==
    /\ update.tag \in {UpdateState, ReplaceState, CaptureUpdate}
    /\ update.payload.kind = "enq"

\* enqueueUpdate has linked in an update while the loop runs: r is the result
\* of EnqueueLinked on the heap and the shared queue as the loop sees them.
ReenteredWith(w, r) ==
    [w EXCEPT !.heap = r.heap,
              !.pending = r.shared.pending,
              !.interleaved = r.shared.interleaved,
              !.pushed = w.pushed \/ r.pushed,
              !.reentered = Append(w.reentered, Len(w.heap) + 1)]

\* The updater function of update has run: the update it scheduled, with the
\* next event time, is enqueued on the fiber that is being processed.
Reentered(w, update) ==
    IF CallsSetState(update)
    THEN ReenteredWith(w,
            EnqueueLinked(w.heap,
                          [pending |-> w.pending, interleaved |-> w.interleaved],
                          createUpdate(clock + 1 + Len(w.reentered), ReentrantLane,
                                       CHOOSE k \in LetterKinds(clock + 1 + Len(w.reentered)) : TRUE),
                          isInterleavedUpdate(workInProgress, ReentrantLane)))
    ELSE w

ApplyUpdate(w, update, props, instance) ==
    QueueCallback(
        Reentered(
            Applied(CarryOver(w, update),
                    getStateFromUpdate(w.flags, w.hasForceUpdate, update, w.newState,
                                       props, instance)),
            update),
        update)

\* One iteration of the do-while loop up to `update = update.next`.
LoopBody(w, update, props, instance, renderLanes) ==
    IF ~isSubsetOfLanes(renderLanes, update.lane)
    THEN SkipUpdate(w, update)
    ELSE ApplyUpdate(w, update, props, instance)

\* TakePending that goes on with the last pending update instead of the first.
TakePendingFromLast(w, lastPendingUpdate) ==
    [w EXCEPT !.heap[lastPendingUpdate].next = Null,
              !.update = lastPendingUpdate,
              !.queueLastBaseUpdate = lastPendingUpdate,
              !.pending = Null]

\* An update was scheduled from inside a reducer: the new pending updates are
\* unravelled and the loop goes on with them.
TakePending(w, lastPendingUpdate) ==
    [w EXCEPT !.heap[lastPendingUpdate].next = Null,
              !.update = w.heap[lastPendingUpdate].next,
              !.queueLastBaseUpdate = lastPendingUpdate,
              !.pending = Null]

\* The end of an iteration: the walk is over ("done") or goes on.
Advance(w, nextUpdate) ==
    IF nextUpdate = Null THEN
        IF w.pending = Null THEN [w EXCEPT !.done = TRUE]
        ELSE TakePending(w, w.pending)
    ELSE [w EXCEPT !.update = nextUpdate]

LoopStep(w, w1) ==
    Advance([w1 EXCEPT !.visited = Append(w1.visited, w.update)], w1.heap[w.update].next)

\* The do-while loop over the merged list.
RECURSIVE ProcessLoop(_, _, _, _)
ProcessLoop(w, props, instance, renderLanes) ==
    IF w.done THEN w
    ELSE ProcessLoop(
            LoopStep(w, LoopBody(w, w.heap[w.update], props, instance, renderLanes)),
            props, instance, renderLanes)

\* Lanes of the updates on the interleaved list, merged into newLanes.
RECURSIVE InterleavedLanes(_, _, _, _)
InterleavedLanes(h, interleaved, lastInterleaved, newLanes) ==
    IF h[interleaved].next = lastInterleaved
    THEN mergeLanes(newLanes, h[interleaved].lane)
    ELSE InterleavedLanes(h, h[interleaved].next, lastInterleaved,
                          mergeLanes(newLanes, h[interleaved].lane))

\* TransferToCurrent that makes the pending updates the whole base list of
\* the current queue.
TransferToCurrentReplacing(t, cref, firstPendingUpdate, lastPendingUpdate) ==
    [t EXCEPT !.queues[cref].firstBaseUpdate = firstPendingUpdate,
              !.queues[cref].lastBaseUpdate = lastPendingUpdate]

\* TransferToCurrent that does not append the pending updates to the current
\* queue.
TransferToCurrentSkipped(t, cref, firstPendingUpdate, lastPendingUpdate) == t

\* The pending updates are appended to the current queue too, when its last
\* base update differs: t is the transfer to the work-in-progress queue.
TransferToCurrent(t, cref, firstPendingUpdate, lastPendingUpdate) ==
    IF t.queues[cref].lastBaseUpdate = lastPendingUpdate THEN t
    ELSE IF t.queues[cref].lastBaseUpdate = Null THEN
        [t EXCEPT !.queues[cref].firstBaseUpdate = firstPendingUpdate,
                  !.queues[cref].lastBaseUpdate = lastPendingUpdate]
    ELSE
        [t EXCEPT !.heap[t.queues[cref].lastBaseUpdate].next = firstPendingUpdate,
                  !.queues[cref].lastBaseUpdate = lastPendingUpdate]

\* The pending list is cut open and appended to the base list of `queue`.
AppendPending(h, qs, queue, firstPendingUpdate, lastPendingUpdate) ==
    IF queue.lastBaseUpdate = Null THEN
        [heap |-> [h EXCEPT ![lastPendingUpdate].next = Null],
         first |-> firstPendingUpdate, last |-> lastPendingUpdate,
         pending |-> Null, queues |-> qs]
    ELSE
        [heap |-> [h EXCEPT ![lastPendingUpdate].next = Null,
                            ![queue.lastBaseUpdate].next = firstPendingUpdate],
         first |-> queue.firstBaseUpdate, last |-> lastPendingUpdate,
         pending |-> Null, queues |-> qs]

\* Check if there are pending updates. If so, transfer them to the base queue:
\* the heap, the queues, the local firstBaseUpdate/lastBaseUpdate and
\* shared.pending afterwards.
TransferPending(h, qs, sh, fs, wip) ==
    IF sh.pending # Null THEN
        IF fs[wip].alternate # Null THEN
            TransferToCurrent(
                AppendPending(h, qs, qs[fs[wip].updateQueue], h[sh.pending].next, sh.pending),
                fs[fs[wip].alternate].updateQueue, h[sh.pending].next, sh.pending)
        ELSE
            AppendPending(h, qs, qs[fs[wip].updateQueue], h[sh.pending].next, sh.pending)
    ELSE
        [heap |-> h, first |-> qs[fs[wip].updateQueue].firstBaseUpdate,
         last |-> qs[fs[wip].updateQueue].lastBaseUpdate,
         pending |-> Null, queues |-> qs]

\* LoopStart that does not reset the force-update marker.
LoopStartKeepingForce(t, queue, flags, sh) ==
    [heap |-> t.heap, update |-> t.first,
     newState |-> queue.baseState, newLanes |-> NoLanes,
     newBaseState |-> NullState,
     newFirstBaseUpdate |-> Null, newLastBaseUpdate |-> Null,
     effects |-> queue.effects, flags |-> flags,
     hasForceUpdate |-> hasForceUpdate, pending |-> t.pending,
     queueLastBaseUpdate |-> queue.lastBaseUpdate,
     interleaved |-> sh.interleaved, pushed |-> FALSE, reentered |-> <<>>,
     applied |-> <<>>, skipped |-> <<>>, visited |-> <<>>, same |-> <<>>, done |-> FALSE]

\* The local variables of processUpdateQueue when the loop starts.
LoopStart(t, queue, flags, sh) ==
    [heap |-> t.heap, update |-> t.first,
     newState |-> queue.baseState, newLanes |-> NoLanes,
     newBaseState |-> NullState,
     newFirstBaseUpdate |-> Null, newLastBaseUpdate |-> Null,
     effects |-> queue.effects, flags |-> flags,
     hasForceUpdate |-> FALSE, pending |-> t.pending,
     queueLastBaseUpdate |-> queue.lastBaseUpdate,
     interleaved |-> sh.interleaved, pushed |-> FALSE, reentered |-> <<>>,
     applied |-> <<>>, skipped |-> <<>>, visited |-> <<>>, same |-> <<>>, done |-> FALSE]

\* RemainingLanes that leaves out the interleaved updates.
RemainingLanesSkippedOnly(w, sh) == w.newLanes

\* The lanes that remain: those skipped and those of the interleaved updates.
RemainingLanes(w, sh) ==
    IF w.interleaved # Null
    THEN InterleavedLanes(w.heap, w.interleaved, w.interleaved, w.newLanes)
    ELSE w.newLanes

\* FinishProcess that keeps the base state and the base list it started from
\* when no update was skipped.
FinishProcessUncollapsed(w, qs, sh, fs, wip, qref, firstBaseUpdate) ==
    [heap |-> w.heap,
     queues |-> [qs EXCEPT ![qref].baseState =
                               IF w.newLastBaseUpdate = Null THEN qs[qref].baseState
                               ELSE w.newBaseState,
                           ![qref].firstBaseUpdate =
                               IF w.newLastBaseUpdate = Null THEN firstBaseUpdate
                               ELSE w.newFirstBaseUpdate,
                           ![qref].lastBaseUpdate =
                               IF w.newLastBaseUpdate = Null THEN w.queueLastBaseUpdate
                               ELSE w.newLastBaseUpdate,
                           ![qref].effects = w.effects],
     shared |-> [sh EXCEPT !.pending = w.pending, !.interleaved = w.interleaved],
     fibers |-> [fs EXCEPT ![wip].lanes = RemainingLanes(w, sh),
                           ![wip].memoizedState = w.newState,
                           ![wip].flags = w.flags],
     hasForceUpdate |-> w.hasForceUpdate,
     skippedLanes |-> RemainingLanes(w, sh),
     walked |-> TRUE, applied |-> w.applied, skipped |-> w.skipped,
     visited |-> w.visited, reentered |-> w.reentered, pushed |-> w.pushed,
     same |-> w.same]

\* FinishProcess that writes the new state to the alternate fiber as well.
FinishProcessOnAlternate(w, qs, sh, fs, wip, qref, firstBaseUpdate) ==
    [heap |-> w.heap,
     queues |-> [qs EXCEPT ![qref].baseState =
                               IF w.newLastBaseUpdate = Null THEN w.newState
                               ELSE w.newBaseState,
                           ![qref].firstBaseUpdate = w.newFirstBaseUpdate,
                           ![qref].lastBaseUpdate = w.newLastBaseUpdate,
                           ![qref].effects = w.effects],
     shared |-> [sh EXCEPT !.pending = w.pending,
                           !.interleaved = w.interleaved,
                           !.lanes = IF w.interleaved = Null /\ firstBaseUpdate = Null
                                     THEN NoLanes ELSE sh.lanes],
     fibers |-> [f \in DOMAIN fs |->
                   IF f = wip
                   THEN [fs[f] EXCEPT !.lanes = RemainingLanes(w, sh),
                                      !.memoizedState = w.newState,
                                      !.flags = w.flags]
                   ELSE IF f = fs[wip].alternate
                   THEN [fs[f] EXCEPT !.memoizedState = w.newState]
                   ELSE fs[f]],
     hasForceUpdate |-> w.hasForceUpdate,
     skippedLanes |-> RemainingLanes(w, sh),
     walked |-> TRUE, applied |-> w.applied, skipped |-> w.skipped,
     visited |-> w.visited, reentered |-> w.reentered, pushed |-> w.pushed,
     same |-> w.same]

\* What the pass writes once the loop is over. firstBaseUpdate is the local
\* variable, the head of the merged list.
FinishProcess(w, qs, sh, fs, wip, qref, firstBaseUpdate) ==
    [heap |-> w.heap,
     queues |-> [qs EXCEPT ![qref].baseState =
                               IF w.newLastBaseUpdate = Null THEN w.newState
                               ELSE w.newBaseState,
                           ![qref].firstBaseUpdate = w.newFirstBaseUpdate,
                           ![qref].lastBaseUpdate = w.newLastBaseUpdate,
                           ![qref].effects = w.effects],
     shared |-> [sh EXCEPT !.pending = w.pending,
                           !.interleaved = w.interleaved,
                           !.lanes = IF w.interleaved = Null /\ firstBaseUpdate = Null
                                     THEN NoLanes ELSE sh.lanes],
     fibers |-> [fs EXCEPT ![wip].lanes = RemainingLanes(w, sh),
                           ![wip].memoizedState = w.newState,
                           ![wip].flags = w.flags],
     hasForceUpdate |-> w.hasForceUpdate,
     skippedLanes |-> RemainingLanes(w, sh),
     walked |-> TRUE, applied |-> w.applied, skipped |-> w.skipped,
     visited |-> w.visited, reentered |-> w.reentered, pushed |-> w.pushed,
     same |-> w.same]

\* ProcessFrom that resets shared.lanes when it finds the queue empty.
ProcessFromClearingLanes(t, sh, fs, wip, qref, props, instance, renderLanes) ==
    IF t.first # Null THEN
        FinishProcess(
            ProcessLoop(LoopStart(t, t.queues[qref], fs[wip].flags, sh),
                        props, instance, renderLanes),
            t.queues, sh, fs, wip, qref, t.first)
    ELSE
        [heap |-> t.heap, queues |-> t.queues,
         shared |-> [sh EXCEPT !.pending = t.pending, !.lanes = NoLanes],
         fibers |-> fs, hasForceUpdate |-> FALSE,
         skippedLanes |-> NoLanes,
         walked |-> FALSE, applied |-> <<>>, skipped |-> <<>>,
         visited |-> <<>>, reentered |-> <<>>, pushed |-> FALSE, same |-> <<>>]

ProcessFrom(t, sh, fs, wip, qref, props, instance, renderLanes) ==
    IF t.first # Null THEN
        FinishProcess(
            ProcessLoop(LoopStart(t, t.queues[qref], fs[wip].flags, sh),
                        props, instance, renderLanes),
            t.queues, sh, fs, wip, qref, t.first)
    ELSE
        [heap |-> t.heap, queues |-> t.queues,
         shared |-> [sh EXCEPT !.pending = t.pending],
         fibers |-> fs, hasForceUpdate |-> FALSE,
         skippedLanes |-> NoLanes,
         walked |-> FALSE, applied |-> <<>>, skipped |-> <<>>,
         visited |-> <<>>, reentered |-> <<>>, pushed |-> FALSE, same |-> <<>>]

\* processUpdateQueue(workInProgress, props, instance, renderLanes) on fiber
\* wip: the heap, the queues, the shared queue, the fibers and hasForceUpdate
\* after the call, with the references it applied and skipped.
ProcessResult(h, qs, sh, fs, wip, props, instance, renderLanes) ==
    ProcessFrom(TransferPending(h, qs, sh, fs, wip), sh, fs, wip,
                fs[wip].updateQueue, props, instance, renderLanes)

\* The render lanes a pass may run at: every non-empty lane set.
RenderLanes == (SUBSET LaneBits) \ {NoLanes}
\* The props and the instance handed to the updater functions.
Props == "props"
Instance == "instance"

ProcessEffects(r, renderLanes) ==
    /\ heap' = r.heap
    /\ queues' = r.queues
    /\ shared' = r.shared
    /\ fibers' = r.fibers
    /\ hasForceUpdate' = r.hasForceUpdate
    /\ last' = [op |-> "process", renderLanes |-> renderLanes,
                walked |-> r.walked,
                applied |-> EventTimes(r.heap, r.applied),
                skipped |-> EventTimes(r.heap, r.skipped),
                skippedLanes |-> r.skippedLanes,
                visited |-> EventTimes(r.heap, r.visited),
                reentered |-> EventTimes(r.heap, r.reentered),
                same |-> r.same,
                before |-> [baseState |-> queues[fibers[workInProgress].updateQueue].baseState,
                            memoizedState |-> fibers[workInProgress].memoizedState]]
    /\ passes' = passes + 1
    /\ clock' = clock + Len(r.reentered)
    /\ interleavedQueues' =
          IF r.pushed
          THEN pushInterleavedQueue(queues[fibers[workInProgress].updateQueue].shared)
          ELSE interleavedQueues
    /\ history' = IF isInterleavedUpdate(workInProgress, ReentrantLane) THEN history
                  ELSE history \o HistoryEntries(r.heap, r.reentered)
    /\ UNCHANGED <<current, workInProgress, root, mode, treeVars, called, origState>>

processUpdateQueue(renderLanes) ==
    /\ workInProgress # Null
    /\ fibers[workInProgress].updateQueue # Null
    \* The callers clone the queue before they process it (cloneUpdateQueue).
    /\ IF current = Null THEN TRUE
       ELSE fibers[workInProgress].updateQueue # fibers[current].updateQueue
    /\ ProcessEffects(ProcessResult(heap, queues, shared, fibers, workInProgress,
                                    Props, Instance, renderLanes),
                      renderLanes)

\* --------------------------------------------------------- cloneUpdateQueue
\* The queue object a clone is allocated in: the one `current` does not use.
FreeQueueRef(cref) == 3 - cref

\* CloneOf whose clone has a shared queue of its own.
CloneOfDetached(currentQueue) ==
    [baseState |-> currentQueue.baseState,
     firstBaseUpdate |-> currentQueue.firstBaseUpdate,
     lastBaseUpdate |-> currentQueue.lastBaseUpdate,
     shared |-> Null,
     effects |-> currentQueue.effects]

CloneOf(currentQueue) ==
    [baseState |-> currentQueue.baseState,
     firstBaseUpdate |-> currentQueue.firstBaseUpdate,
     lastBaseUpdate |-> currentQueue.lastBaseUpdate,
     shared |-> currentQueue.shared,
     effects |-> currentQueue.effects]

cloneUpdateQueue(cur, wip) ==
    /\ cur # Null /\ wip # Null
    /\ fibers[cur].updateQueue # Null
    /\ IF fibers[wip].updateQueue = fibers[cur].updateQueue THEN
           /\ queues' = [queues EXCEPT ![FreeQueueRef(fibers[cur].updateQueue)] =
                                           CloneOf(queues[fibers[cur].updateQueue])]
           /\ fibers' = [fibers EXCEPT ![wip].updateQueue =
                                           FreeQueueRef(fibers[cur].updateQueue)]
           /\ last' = [op |-> "clone", cloned |-> TRUE]
       ELSE
           /\ last' = [op |-> "clone", cloned |-> FALSE]
           /\ UNCHANGED <<queues, fibers>>
    /\ UNCHANGED <<heap, shared, current, workInProgress, hasForceUpdate, root,
                   mode, treeVars, clock, passes, interleavedQueues, called, history, origState>>

\* ------------------------------------------------ enqueueInterleavedUpdates
\* At the end of a render pass the interleaved updates of every registered
\* queue are moved to the end of its pending list.
MergeInterleaved(h, sh) ==
    IF sh.interleaved = Null THEN [heap |-> h, shared |-> sh]
    ELSE IF sh.pending # Null THEN
        [heap |-> [h EXCEPT ![sh.pending].next = h[sh.interleaved].next,
                            ![sh.interleaved].next = h[sh.pending].next],
         shared |-> [sh EXCEPT !.interleaved = Null, !.pending = sh.interleaved]]
    ELSE
        [heap |-> h,
         shared |-> [sh EXCEPT !.interleaved = Null, !.pending = sh.interleaved]]

MergedHistory(h, sh) == history \o HistoryEntries(h, InterleavedList(h, sh))

\* --------------------------------------------------------- commitUpdateQueue
\* callCallback(callback, context): the callback runs with context as `this`;
\* `cleared` records whether it finds the callback of its effect reset.
callCallback(r, callback, context, effect) ==
    [r EXCEPT !.called = Append(@, callback),
              !.invoked = Append(@, [callback |-> callback, this |-> context,
                                     cleared |-> r.heap[effect].callback = Null])]

\* CommitEffect that calls the callback and leaves it on the effect.
CommitEffectUncleared(r, effect, context) ==
    IF r.heap[effect].callback # Null
    THEN callCallback(r, r.heap[effect].callback, context, effect)
    ELSE r

\* The body of the loop over the effects.
CommitEffect(r, effect, context) ==
    IF r.heap[effect].callback # Null
    THEN callCallback([r EXCEPT !.heap[effect].callback = Null],
                      r.heap[effect].callback, context, effect)
    ELSE r

RECURSIVE CommitEffects(_, _, _, _)
CommitEffects(r, effects, i, context) ==
    IF i > Len(effects) THEN r
    ELSE CommitEffects(CommitEffect(r, effects[i], context), effects, i + 1, context)

\* commitUpdateQueue(finishedWork, finishedQueue, instance): the heap, the
\* callbacks invoked so far and the invocations of this call;
\* finishedQueue.effects becomes null.
CommitUpdateQueueResult(h, finishedQueue, calls) ==
    CommitEffects([heap |-> h, called |-> calls, invoked |-> <<>>],
                  finishedQueue.effects, 1, Instance)

\* checkHasForceUpdateAfterProcessing()
checkHasForceUpdateAfterProcessing == hasForceUpdate

\* ------------------------------------------------------------------ commit
\* The commit in progress: the heap, the callbacks invoked so far, what the
\* host container shows, the root's current fiber, and (for the properties)
\* the steps taken so far and the host content the snapshot hooks saw.
CommitStart(h, calls, host, cur) ==
    [heap |-> h, called |-> calls, containerInfo |-> host, current |-> cur,
     order |-> <<>>, snapshot |-> NoContent, invoked |-> <<>>]

\* commitBeforeMutationEffects: the snapshot hooks (getSnapshotBeforeUpdate)
\* run against the host tree as it is.
commitBeforeMutationEffects(c) ==
    [c EXCEPT !.snapshot = c.containerInfo,
              !.order = Append(@, "beforeMutation")]

\* commitMutationEffects: the placements and updates of the finished work are
\* applied to the host tree.
commitMutationEffects(c, fs, finishedWork) ==
    [c EXCEPT !.containerInfo = fs[finishedWork].memoizedState,
              !.order = Append(@, "mutation")]

\* commitLayoutEffects: the lifecycle hooks of the finished work run; for its
\* update queue that is commitUpdateQueue.
commitLayoutEffects(c, finishedQueue) ==
    [c EXCEPT !.heap = CommitUpdateQueueResult(c.heap, finishedQueue, c.called).heap,
              !.called = CommitUpdateQueueResult(c.heap, finishedQueue, c.called).called,
              !.invoked = CommitUpdateQueueResult(c.heap, finishedQueue, c.called).invoked,
              !.order = Append(@, "layout")]

\* root.current = finishedWork
SwapCurrent(c, finishedWork) ==
    [c EXCEPT !.current = finishedWork, !.order = Append(@, "current")]

CommitEffectsOf(c, qref) ==
    /\ heap' = MergeInterleaved(c.heap, shared).heap
    /\ shared' = MergeInterleaved(c.heap, shared).shared
    /\ history' = MergedHistory(heap, shared)
    /\ queues' = [queues EXCEPT ![qref].effects = NoEffects]
    /\ called' = c.called
    /\ current' = c.current
    /\ root' = [root EXCEPT !.containerInfo = c.containerInfo]
    /\ workInProgress' = Null
    /\ interleavedQueues' = <<>>
    /\ last' = [op |-> "commit", order |-> c.order, snapshot |-> c.snapshot,
                invoked |-> c.invoked]
    /\ UNCHANGED <<fibers, hasForceUpdate, mode, treeVars, clock, passes, origState>>

\* commitRoot whose mutation pass runs before the before-mutation pass.
commitRootMutatingFirst ==
    /\ workInProgress # Null
    /\ fibers[workInProgress].updateQueue # Null
    /\ last.op = "process"
    /\ CommitEffectsOf(
          SwapCurrent(
             commitLayoutEffects(
                commitBeforeMutationEffects(
                   commitMutationEffects(
                      CommitStart(heap, called, root.containerInfo, current),
                      fibers, workInProgress)),
                queues[fibers[workInProgress].updateQueue]),
             workInProgress),
          fibers[workInProgress].updateQueue)

\* The commit of the finished work-in-progress fiber, in one step: the
\* before-mutation, mutation and layout passes in this order (the layout pass
\* runs commitUpdateQueue on its queue), then the fiber becomes current; the
\* render pass is over.
commitRoot ==
    /\ workInProgress # Null
    /\ fibers[workInProgress].updateQueue # Null
    /\ last.op = "process"
    /\ CommitEffectsOf(
          SwapCurrent(
             commitLayoutEffects(
                commitMutationEffects(
                   commitBeforeMutationEffects(
                      CommitStart(heap, called, root.containerInfo, current)),
                   fibers, workInProgress),
                queues[fibers[workInProgress].updateQueue]),
             workInProgress),
          fibers[workInProgress].updateQueue)

\* The assignments of a commitUpdateQueue call with result r on queue qref.
CommitUpdateQueueEffects(r, qref) ==
    /\ heap' = r.heap
    /\ called' = r.called
    /\ queues' = [queues EXCEPT ![qref].effects = NoEffects]
    /\ last' = [op |-> "commitUpdateQueue", invoked |-> r.invoked]
    /\ UNCHANGED <<shared, fibers, current, workInProgress, hasForceUpdate, root, mode,
                   treeVars, clock, passes, interleavedQueues, history, origState>>

\* commitUpdateQueue(finishedWork, finishedQueue, instance) called again on the
\* committed fiber f and its queue.
commitUpdateQueue(f) ==
    /\ current # Null
    /\ f = current
    /\ workInProgress = Null
    /\ fibers[f].updateQueue # Null
    /\ CommitUpdateQueueEffects(
          CommitUpdateQueueResult(heap, queues[fibers[f].updateQueue], called),
          fibers[f].updateQueue)

\* ------------------------------------------------------ createWorkInProgress
FreshFiber(fs, cur) ==
    [exists |-> TRUE,
     memoizedState |-> fs[cur].memoizedState,
     lanes |-> fs[cur].lanes,
     flags |-> NoFlags,
     updateQueue |-> fs[cur].updateQueue,
     alternate |-> cur]

FreshWorkInProgress(cur) == FreshFiber(fibers, cur)

\* A render pass starts (or restarts after the previous work-in-progress was
\* abandoned): the alternate of `current` is created or reset from `current`.
createWorkInProgress ==
    /\ current # Null
    /\ fibers[current].updateQueue # Null
    /\ IF workInProgress = Null THEN TRUE
       ELSE fibers[workInProgress].updateQueue # fibers[current].updateQueue
    /\ fibers' = [fibers EXCEPT ![3 - current] = FreshWorkInProgress(current),
                                ![current].alternate = 3 - current]
    /\ queues' = IF fibers[3 - current].updateQueue \notin {Null, fibers[current].updateQueue}
                 THEN [queues EXCEPT ![fibers[3 - current].updateQueue] = EmptyQueue]
                 ELSE queues
    /\ heap' = MergeInterleaved(heap, shared).heap
    /\ shared' = MergeInterleaved(heap, shared).shared
    /\ history' = MergedHistory(heap, shared)
    /\ interleavedQueues' = <<>>
    /\ workInProgress' = 3 - current
    /\ last' = [op |-> "createWorkInProgress", restart |-> workInProgress # Null,
                abandoned |-> IF workInProgress # Null /\ last.op = "process"
                              THEN last.applied ELSE <<>>]
    /\ UNCHANGED <<current, hasForceUpdate, root, mode, treeVars, clock, passes, called, origState>>

\* ------------------------------------------------------ entangleTransitions
\* markRootEntangled(root, entangledLanes)
markRootEntangled(r, entangledLanes) ==
    [r EXCEPT !.entangledLanes = mergeLanes(r.entangledLanes, entangledLanes)]

\* NewQueueLanes that keeps the lanes that are no longer pending on the root.
NewQueueLanesKeepingAll(sh, r, lane) == mergeLanes(sh.lanes, lane)

\* The new value of sharedQueue.lanes for a transition lane.
NewQueueLanes(sh, r, lane) ==
    mergeLanes(intersectLanes(sh.lanes, r.pendingLanes), lane)

entangleTransitions(f, lane) ==
    /\ fibers[f].exists
    /\ IF fibers[f].updateQueue = Null THEN
          \* Only occurs if the fiber has been unmounted.
          /\ last' = [op |-> "entangle", entangled |-> FALSE, unmounted |-> TRUE,
                      lane |-> lane]
          /\ UNCHANGED <<shared, root>>
       ELSE IF isTransitionLane(lane) THEN
          /\ shared' = [shared EXCEPT !.lanes = NewQueueLanes(shared, root, lane)]
          /\ root' = markRootEntangled(root, NewQueueLanes(shared, root, lane))
          /\ last' = [op |-> "entangle", entangled |-> TRUE, unmounted |-> FALSE,
                      lane |-> lane, marked |-> NewQueueLanes(shared, root, lane)]
       ELSE
          /\ last' = [op |-> "entangle", entangled |-> FALSE, unmounted |-> FALSE,
                      lane |-> lane]
          /\ UNCHANGED <<shared, root>>
    /\ UNCHANGED <<heap, queues, fibers, current, workInProgress, hasForceUpdate,
                   mode, treeVars, clock, passes, interleavedQueues, called, history, origState>>

\* The scheduler and the commit change root.pendingLanes.
setPendingLanes(lanes) ==
    /\ root.pendingLanes # lanes
    /\ root' = [root EXCEPT !.pendingLanes = lanes]
    /\ last' = [op |-> "setPendingLanes"]
    /\ UNCHANGED <<heap, queues, shared, fibers, current, workInProgress,
                   hasForceUpdate, mode, treeVars, clock, passes, interleavedQueues, called,
                   history, origState>>

\* -------------------------------------------------------------- detachFiber
\* The component is unmounted: the update queues of its fibers are torn down.
detachFiber ==
    /\ current # Null
    /\ workInProgress = Null
    /\ fibers[current].updateQueue # Null
    /\ fibers' = [f \in 1..2 |-> [fibers[f] EXCEPT !.updateQueue = Null]]
    /\ last' = [op |-> "detach"]
    /\ UNCHANGED <<heap, queues, shared, current, workInProgress, hasForceUpdate,
                   root, mode, treeVars, clock, passes, interleavedQueues, called, history,
                   origState>>

\* ---------------------------------------------------- enqueueCapturedUpdate
\* Appends the object with reference ref to the list that c is building.
AppendToCloned(c, ref) ==
    IF c.newLast = Null
    THEN [c EXCEPT !.newFirst = ref, !.newLast = ref]
    ELSE [c EXCEPT !.heap[c.newLast].next = ref, !.newLast = ref]

\* Allocates a clone of update u and appends it to the list that c is building.
AppendClone(c, u) ==
    AppendToCloned([c EXCEPT !.heap = Append(c.heap, CloneUpdate(c.heap[u], c.heap[u].lane))],
                   Len(c.heap) + 1)

\* Loop through the updates and clone them.
RECURSIVE CloneBaseList(_, _)
CloneBaseList(c, u) ==
    IF u = Null THEN c
    ELSE CloneBaseList(AppendClone(c, u), c.heap[u].next)

\* The work-in-progress queue is the same as current: the base updates are
\* cloned, the captured update capturedRef is appended to the clones, and the
\* work-in-progress fiber gets a queue object of its own.
CapturedOnClone(c, qs, fs, wip, cref) ==
    [heap |-> c.heap,
     queues |-> [qs EXCEPT ![FreeQueueRef(cref)] =
                    [baseState |-> qs[cref].baseState,
                     firstBaseUpdate |-> c.newFirst,
                     lastBaseUpdate |-> c.newLast,
                     shared |-> qs[cref].shared,
                     effects |-> qs[cref].effects]],
     fibers |-> [fs EXCEPT ![wip].updateQueue = FreeQueueRef(cref)],
     cloned |-> TRUE]

\* Append the update to the end of the list.
CapturedAppended(h, qs, fs, qref, capturedRef) ==
    [heap |-> IF qs[qref].lastBaseUpdate = Null THEN h
              ELSE [h EXCEPT ![qs[qref].lastBaseUpdate].next = capturedRef],
     queues |-> [qs EXCEPT ![qref].firstBaseUpdate =
                               IF qs[qref].lastBaseUpdate = Null THEN capturedRef
                               ELSE qs[qref].firstBaseUpdate,
                           ![qref].lastBaseUpdate = capturedRef],
     fibers |-> fs,
     cloned |-> FALSE]

\* CapturedResult without the check whether the queue is a clone.
CapturedResultInPlace(h, qs, fs, wip, capturedRef) ==
    CapturedAppended(h, qs, fs, fs[wip].updateQueue, capturedRef)

\* enqueueCapturedUpdate(workInProgress, capturedUpdate) on a heap h that
\* already holds the captured update at capturedRef.
CapturedResult(h, qs, fs, wip, capturedRef) ==
    IF /\ fs[wip].alternate # Null
       /\ fs[wip].updateQueue = fs[fs[wip].alternate].updateQueue
    THEN CapturedOnClone(
            AppendToCloned(
                CloneBaseList([heap |-> h, newFirst |-> Null, newLast |-> Null],
                              qs[fs[wip].updateQueue].firstBaseUpdate),
                capturedRef),
            qs, fs, wip, fs[wip].updateQueue)
    ELSE CapturedAppended(h, qs, fs, fs[wip].updateQueue, capturedRef)

CapturedEffects(r) ==
    /\ heap' = r.heap
    /\ queues' = r.queues
    /\ fibers' = r.fibers
    /\ clock' = clock + 1
    /\ last' = [op |-> "capture", cloned |-> r.cloned]
    /\ UNCHANGED <<shared, current, workInProgress, hasForceUpdate, root, mode, treeVars, passes,
                   interleavedQueues, called, history, origState>>

\* The begin phase of fiber wip is over: the fiber bailed out (its queue is
\* still the queue of its alternate) or its cloned queue has been processed,
\* which leaves it a base list of its own.
HasBegun(qs, fs, wip) ==
    IF fs[wip].alternate = Null THEN TRUE
    ELSE IF fs[fs[wip].alternate].updateQueue = Null THEN TRUE
    ELSE IF fs[wip].updateQueue = fs[fs[wip].alternate].updateQueue THEN TRUE
    ELSE IF qs[fs[wip].updateQueue].firstBaseUpdate = Null THEN TRUE
    ELSE qs[fs[wip].updateQueue].firstBaseUpdate
            # qs[fs[fs[wip].alternate].updateQueue].firstBaseUpdate

\* A child throws during the render: the boundary, which has begun before its
\* children, is marked ShouldCapture and the update that renders the error is
\* put on its work-in-progress queue.
throwException(lane, kind) ==
    /\ workInProgress # Null
    /\ fibers[workInProgress].updateQueue # Null
    /\ HasBegun(queues, fibers, workInProgress)
    /\ CapturedEffects(
          CapturedResult(Append(heap, createUpdate(clock + 1, lane, kind)), queues,
                         [fibers EXCEPT ![workInProgress].flags = @ \cup {ShouldCapture}],
                         workInProgress, Len(heap) + 1))

Next ==
    \/ \E f \in 1..2 : initializeUpdateQueue(f)
    \/ \E f \in 1..2, l \in LaneBits, k \in UpdateKinds(clock + 1) :
          clock < MaxUpdates /\ enqueueUpdate(f, {l}, k)
    \/ cloneUpdateQueue(current, workInProgress)
    \/ \E rl \in RenderLanes : passes < MaxPasses /\ processUpdateQueue(rl)
    \/ commitRoot
    \/ createWorkInProgress

Spec == Init /\ [][Next]_vars

\* The queues of the header comment of ReactUpdateQueue: every update appends
\* one letter.
NextLetters ==
    \/ \E f \in 1..2 : initializeUpdateQueue(f)
    \/ \E f \in 1..2, l \in LaneBits, k \in LetterKinds(clock + 1) :
          clock < MaxLetters /\ enqueueUpdate(f, {l}, k)
    \/ cloneUpdateQueue(current, workInProgress)
    \/ \E rl \in RenderLanes : passes < MaxLetterPasses /\ processUpdateQueue(rl)
    \/ commitRoot
    \/ createWorkInProgress

SpecLetters == InitLetters /\ [][NextLetters]_vars

\* The queue with the root's lanes, entangled transitions and unmounting.
NextRoot ==
    \/ \E f \in 1..2 : initializeUpdateQueue(f)
    \/ \E f \in 1..2, l \in LaneBits, k \in LetterKinds(clock + 1) :
          clock < MaxRootUpdates /\ enqueueUpdate(f, {l}, k)
    \/ \E f \in 1..2, l \in LaneBits : entangleTransitions(f, {l})
    \/ \E lanes \in SUBSET LaneBits : setPendingLanes(lanes)
    \/ cloneUpdateQueue(current, workInProgress)
    \/ \E rl \in RenderLanes : passes < MaxRootPasses /\ processUpdateQueue(rl)
    \/ commitRoot
    \/ createWorkInProgress
    \/ detachFiber

SpecRoot == Init /\ [][NextRoot]_vars

\* The queue with updates of every tag and with captured updates.
NextTags ==
    \/ \E f \in 1..2 : initializeUpdateQueue(f)
    \/ \E f \in 1..2, l \in LaneBits, k \in TagKinds(clock + 1) :
          clock < MaxTagUpdates /\ enqueueUpdate(f, {l}, k)
    \/ \E l \in LaneBits, k \in CaptureKinds(clock + 1) :
          clock < MaxTagUpdates /\ throwException({l}, k)
    \/ cloneUpdateQueue(current, workInProgress)
    \/ \E rl \in RenderLanes : passes < MaxTagPasses /\ processUpdateQueue(rl)
    \/ commitRoot
    \/ createWorkInProgress

SpecTags == InitTags /\ [][NextTags]_vars

\* ================================================================ properties
\* The queue of the work-in-progress fiber and of the current fiber.
WipQueue == queues[fibers[workInProgress].updateQueue]
CurrentQueue == queues[fibers[current].updateQueue]
\* The list a pass walks: the base list of the work-in-progress queue followed
\* by the pending list, as references into the heap.
MergedList == BaseList(heap, WipQueue) \o PendingList(heap, shared)
\* The step is a processUpdateQueue pass.
IsPass == passes' = passes + 1
\* The state after applying the updates us (update objects or history
\* entries), in order, to state.
RECURSIVE FoldUpdates(_, _)
FoldUpdates(state, us) ==
    IF us = <<>> THEN state
    ELSE FoldUpdates(
            getStateFromUpdate(NoFlags, FALSE, Head(us), state, Props, Instance).state,
            Tail(us))
Objects(h, refs) == [i \in 1..Len(refs) |-> h[refs[i]]]
\* Whether a pass at renderLanes skips update u.
IsSkipped(u, renderLanes) == ~isSubsetOfLanes(renderLanes, u.lane)
\* The updates of us a pass at renderLanes applies, in order.
Sufficient(us, renderLanes) == SelectSeq(us, LAMBDA u : ~IsSkipped(u, renderLanes))
\* The position in us of the first update a pass at renderLanes skips, or
\* Len(us) + 1 when it skips none.
FirstSkip(us, renderLanes) ==
    IF \E i \in 1..Len(us) : IsSkipped(us[i], renderLanes)
    THEN CHOOSE i \in 1..Len(us) :
            /\ IsSkipped(us[i], renderLanes)
            /\ \A j \in 1..(i - 1) : ~IsSkipped(us[j], renderLanes)
    ELSE Len(us) + 1
BeforeFirstSkip(us, renderLanes) == SubSeq(us, 1, FirstSkip(us, renderLanes) - 1)
FromFirstSkip(us, renderLanes) == SubSeq(us, FirstSkip(us, renderLanes), Len(us))
Times(us) == [i \in 1..Len(us) |-> us[i].eventTime]
IsIncreasing(ts) == \A i \in 1..Len(ts) : \A j \in 1..Len(ts) : i < j => ts[i] < ts[j]

\* C1: Determinism of the update queue. Once a pass has run after which no
\* update remains skipped (the base list of the work-in-progress queue is
\* empty), memoizedState and queue.baseState both equal the state obtained by
\* applying every update linked into the queue exactly once, in insertion
\* order, to the original base state, whatever passes ran before.
C1_Determinism ==
    (last.op = "process" /\ WipQueue.firstBaseUpdate = Null)
        => /\ fibers[workInProgress].memoizedState = FoldUpdates(origState, history)
           /\ WipQueue.baseState = FoldUpdates(origState, history)

\* C1 witness: the third pass leaves no update skipped on a queue of at least
\* three updates, after an earlier pass skipped one and carried others over.
C1_Witness ==
    /\ last.op = "process"
    /\ passes = 3
    /\ Len(history) >= 3
    /\ Len(last.applied) >= 3
    /\ WipQueue.firstBaseUpdate = Null
    /\ \E i \in 1..Len(heap) : heap[i].lane = NoLane
    /\ fibers[workInProgress].memoizedState = FoldUpdates(origState, history)

\* The update objects the pass of this step walks, and its render lanes.
PreList == Objects(heap, MergedList)
PassLanes == last'.renderLanes
WipQueueAfter == queues'[fibers'[workInProgress'].updateQueue]
\* t1 comes before t2 in the sequence of event times ts.
InOrder(ts, t1, t2) ==
    \E i \in 1..Len(ts) : \E j \in 1..Len(ts) : i < j /\ ts[i] = t1 /\ ts[j] = t2
Elems(ts) == {ts[i] : i \in 1..Len(ts)}

\* C2: Priority correctness. With U1 before U2 on the list, U1's lane not in
\* renderLanes and U2's lane in renderLanes, the pass applies U2 and does not
\* apply U1. A later pass over the queue that pass left (U1 still with its
\* lane, U2 as the carried-over copy) whose renderLanes include U1's lane
\* applies U1 first and then U2 again, in the original order.
C2_PriorityCorrectness ==
    [][IsPass =>
        \A i \in 1..Len(PreList) : \A j \in 1..Len(PreList) :
            i < j =>
              /\ (IsSkipped(PreList[i], PassLanes) /\ ~IsSkipped(PreList[j], PassLanes))
                    => /\ PreList[j].eventTime \in Elems(last'.applied)
                       /\ PreList[i].eventTime \notin Elems(last'.applied)
              /\ (PreList[i].lane # NoLane /\ ~IsSkipped(PreList[i], PassLanes)
                     /\ PreList[j].lane = NoLane)
                    => InOrder(last'.applied, PreList[i].eventTime, PreList[j].eventTime)
              /\ (/\ last.op = "process"
                  /\ PreList[i].eventTime \in Elems(last.skipped)
                  /\ PreList[j].eventTime \in Elems(last.applied)
                  /\ ~IsSkipped(PreList[i], PassLanes))
                    => InOrder(last'.applied, PreList[i].eventTime, PreList[j].eventTime)
      ]_vars

\* C2 witness: a pass at a lane set without U2's own lane has just applied U1
\* and then U2 again; the pass before it applied U2 while it skipped U1 and
\* left U2 on the queue as a carried-over copy.
C2_Witness ==
    /\ last.op = "process"
    /\ Len(last.applied) >= 2
    /\ \E i \in 1..Len(history) : \E j \in 1..Len(history) :
          /\ i < j
          /\ InOrder(last.applied, history[i].eventTime, history[j].eventTime)
          /\ IsSkipped(history[j], last.renderLanes)
          /\ ~IsSkipped(history[i], last.renderLanes)
          /\ \E b \in 1..Len(heap) :
                heap[b].eventTime = history[j].eventTime /\ heap[b].lane = NoLane

\* C3: Intermediate state of a pass with skips. After a pass that skipped at
\* least one update, memoizedState is the result of applying, in order, every
\* update of the list whose lane is in renderLanes, and queue.baseState is the
\* result of applying only those before the first skipped one. For A1-B2-C1-D2
\* on base state '', the pass at lane 1 gives 'AC' with base state 'A', and
\* the following pass at lane 2 processes [B2, C1, D2] and gives 'ABCD'.
LogState(letters) == [k \in {"log"} |-> letters]
C3_IntermediateState ==
    [][IsPass =>
        /\ FirstSkip(PreList, PassLanes) <= Len(PreList)
              => /\ fibers'[workInProgress'].memoizedState =
                        FoldUpdates(WipQueue.baseState, Sufficient(PreList, PassLanes))
                 /\ WipQueueAfter.baseState =
                        FoldUpdates(WipQueue.baseState, BeforeFirstSkip(PreList, PassLanes))
        /\ (/\ WipQueue.baseState = LogState(<<>>)
            /\ Times(PreList) = <<1, 2, 3, 4>>
            /\ [i \in 1..4 |-> PreList[i].lane] = <<{1}, {2}, {1}, {2}>>
            /\ PassLanes = {1})
              => /\ last'.applied = <<1, 3>>
                 /\ fibers'[workInProgress'].memoizedState = LogState(<<"A", "C">>)
                 /\ WipQueueAfter.baseState = LogState(<<"A">>)
        /\ (/\ WipQueue.baseState = LogState(<<"A">>)
            /\ fibers[workInProgress].memoizedState = LogState(<<"A", "C">>)
            /\ Times(PreList) = <<2, 3, 4>>
            /\ [i \in 1..3 |-> PreList[i].lane] = <<{2}, NoLane, {2}>>
            /\ PassLanes = {2})
              => /\ last'.applied = <<2, 3, 4>>
                 /\ fibers'[workInProgress'].memoizedState = LogState(<<"A", "B", "C", "D">>)
      ]_vars

\* C3 witness: the second render of the example: from base state 'A' and
\* result 'AC', the pass at lane 2 has processed [B2, C1, D2] and given 'ABCD'.
C3_Witness ==
    /\ last.op = "process"
    /\ last.renderLanes = {2}
    /\ last.before.baseState = LogState(<<"A">>)
    /\ last.before.memoizedState = LogState(<<"A", "C">>)
    /\ last.applied = <<2, 3, 4>>
    /\ fibers[workInProgress].memoizedState = LogState(<<"A", "B", "C", "D">>)
    /\ [i \in 1..4 |-> history[i].lane] = <<{1}, {2}, {1}, {2}>>

\* C5: Updates are never reordered by priority. In every queue the updates
\* that remain (the base list followed by the pending list, read from
\* pending.next round to pending) are in the order they were enqueued, whatever
\* their lanes, and a new update is the last of its list.
LiveQueues == {fibers[f].updateQueue : f \in {g \in 1..2 : fibers[g].updateQueue # Null}}
C5_InsertionOrder ==
    /\ \A q \in LiveQueues :
          IsIncreasing(Times(Objects(heap, BaseList(heap, queues[q]) \o PendingList(heap, shared))))
    /\ (last.op = "enqueue" /\ last.linked)
          => IF last.interleaved
             THEN heap[shared.interleaved].eventTime = clock
             ELSE heap[shared.pending].eventTime = clock
    /\ \A i \in 1..Len(heap) : heap[i].eventTime <= clock

\* C5 witness: a base list carried over from a pass is followed by a pending
\* update enqueued later with a lane that differs from the lane before it.
C5_Witness ==
    /\ workInProgress # Null
    /\ fibers[workInProgress].updateQueue # Null
    /\ Len(BaseList(heap, WipQueue)) >= 2
    /\ Len(PendingList(heap, shared)) >= 1
    /\ heap[shared.pending].lane # heap[WipQueue.lastBaseUpdate].lane
    /\ last.op = "enqueue"

\* C4: Updater functions see the accumulated state. On base state {count: 0},
\* the partial state {count: 1} followed by the updater
\* prev => ({count: prev.count + 1}), both at one lane that is rendered, give
\* the memoizedState {count: 2}.
CountState(n) == [k \in {"count"} |-> n]
C4_UpdaterSeesAccumulatedState ==
    [][(/\ IsPass
        /\ WipQueue.baseState = CountState(0)
        /\ Len(PreList) = 2
        /\ PreList[1].tag = UpdateState
        /\ PreList[1].payload = [kind |-> "obj", arg |-> CountState(1)]
        /\ PreList[2].tag = UpdateState
        /\ PreList[2].payload = [kind |-> "inc", arg |-> CountState(1)]
        /\ PreList[1].lane = PreList[2].lane
        /\ ~IsSkipped(PreList[1], PassLanes))
          => fibers'[workInProgress'].memoizedState = CountState(2)
      ]_vars

\* C4 witness: the pass has processed exactly {count: 1} and then the
\* incrementing updater, enqueued at one lane, from base state {count: 0}.
C4_Witness ==
    /\ last.op = "process"
    /\ last.before.baseState = CountState(0)
    /\ last.applied = <<1, 2>>
    /\ Len(history) = 2
    /\ history[1].payload = [kind |-> "obj", arg |-> CountState(1)]
    /\ history[2].payload = [kind |-> "inc", arg |-> CountState(1)]
    /\ history[1].lane = history[2].lane
    /\ fibers[workInProgress].memoizedState = CountState(2)

\* The base list the pass of this step leaves on the work-in-progress queue.
NewBaseList == Objects(heap', BaseList(heap', WipQueueAfter))
SameUpdate(a, b) ==
    /\ a.eventTime = b.eventTime
    /\ a.lane = b.lane
    /\ a.tag = b.tag
    /\ a.payload = b.payload
    /\ a.callback = b.callback

\* C6: Skipping. An update whose lane is not in renderLanes is not applied in
\* the pass; a copy of it with the same lane, tag, payload and callback is put
\* on the new base list; its lane is merged into the lanes that remain on the
\* fiber; and the new base state is the state accumulated just before the
\* first skipped update.
C6_Skipping ==
    [][IsPass =>
        /\ \A i \in 1..Len(PreList) :
              IsSkipped(PreList[i], PassLanes) =>
                /\ PreList[i].eventTime \notin Elems(last'.applied)
                /\ \E k \in 1..Len(NewBaseList) : SameUpdate(NewBaseList[k], PreList[i])
                /\ \E r \in (Len(heap) + 1)..Len(heap') : SameUpdate(heap'[r], PreList[i])
                /\ isSubsetOfLanes(fibers'[workInProgress'].lanes, PreList[i].lane)
        /\ FirstSkip(PreList, PassLanes) <= Len(PreList)
              => WipQueueAfter.baseState =
                    FoldUpdates(WipQueue.baseState, BeforeFirstSkip(PreList, PassLanes))
      ]_vars

\* C6 witness: the pass skipped an update that has a callback, after it
\* applied an earlier one and before it applied a later one.
C6_Witness ==
    /\ last.op = "process"
    /\ Len(last.skipped) >= 1
    /\ Len(last.applied) >= 2
    /\ \E i \in 1..Len(history) :
          /\ history[i].eventTime \in Elems(last.skipped)
          /\ history[i].callback # Null
          /\ \E a \in Elems(last.applied) : a < history[i].eventTime
          /\ \E b \in Elems(last.applied) : b > history[i].eventTime
    /\ fibers[workInProgress].lanes # NoLanes
    /\ WipQueue.baseState # fibers[workInProgress].memoizedState

\* C7: Queue collapse. After a pass over a non-empty queue in which no update
\* was skipped, queue.baseState equals memoizedState, firstBaseUpdate and
\* lastBaseUpdate are null, and shared.pending is null.
C7_QueueCollapse ==
    (last.op = "process" /\ last.walked /\ last.skipped = <<>>)
        => /\ WipQueue.baseState = fibers[workInProgress].memoizedState
           /\ WipQueue.firstBaseUpdate = Null
           /\ WipQueue.lastBaseUpdate = Null
           /\ shared.pending = Null

\* C7 witness: a pass has applied two or more updates, skipped none, and
\* moved the state away from the state of the mount.
C7_Witness ==
    /\ last.op = "process"
    /\ last.walked
    /\ last.skipped = <<>>
    /\ Len(last.applied) >= 2
    /\ fibers[workInProgress].memoizedState # origState
    /\ WipQueue.baseState = fibers[workInProgress].memoizedState
    /\ WipQueue.firstBaseUpdate = Null

\* C8: Carry-over after a skip. Once an update has been skipped, it and every
\* later update of the pass are on the new base list, in order, whatever their
\* lanes: the skipped ones with their lane, the applied ones as NoLane copies.
\* A NoLane copy is never skipped, so it is applied again in every later pass.
C8_CarryOver ==
    [][IsPass =>
        /\ FirstSkip(PreList, PassLanes) <= Len(PreList)
              => /\ Times(NewBaseList) = Times(FromFirstSkip(PreList, PassLanes))
                 /\ \A k \in 1..Len(NewBaseList) :
                       NewBaseList[k].lane =
                          IF IsSkipped(FromFirstSkip(PreList, PassLanes)[k], PassLanes)
                          THEN FromFirstSkip(PreList, PassLanes)[k].lane
                          ELSE NoLane
        /\ \A i \in 1..Len(PreList) :
              PreList[i].lane = NoLane => PreList[i].eventTime \in Elems(last'.applied)
      ]_vars

\* C8 witness: a pass whose render lanes do not hold the original lane of an
\* update has applied the NoLane copy of it that an earlier pass carried over;
\* the same pass skipped a later update and carried the one after it over.
C8_Witness ==
    /\ last.op = "process"
    /\ Len(last.skipped) >= 1
    /\ Len(BaseList(heap, WipQueue)) >= 2
    /\ heap[WipQueue.firstBaseUpdate].lane # NoLane
    /\ heap[WipQueue.lastBaseUpdate].lane = NoLane
    /\ \E i \in 1..Len(history) :
          /\ history[i].eventTime \in Elems(last.applied)
          /\ IsSkipped(history[i], last.renderLanes)

\* C9: enqueueUpdate on a fiber whose updateQueue is null returns without any
\* change of state, and so does entangleTransitions: the heap of updates, the
\* queues, the shared queue, the fibers and the root stay as they were.
NoQueue == \A f \in 1..2 : fibers[f].updateQueue = Null
C9_UnmountedNoOp ==
    [][(NoQueue /\ last'.op \in {"enqueue", "entangle"})
          => UNCHANGED <<heap, queues, shared, fibers, current, workInProgress,
                         hasForceUpdate, root, interleavedQueues, called, history>>
      ]_vars

\* C9 witness: an update was enqueued on a fiber after its queue, which still
\* holds an update, was torn down by the unmount.
C9_Witness ==
    /\ last.op = "enqueue"
    /\ ~last.linked
    /\ NoQueue
    /\ current # Null
    /\ Len(heap) >= 1
    /\ shared.pending # Null

\* C10: initializeUpdateQueue attaches a fresh empty queue: baseState is the
\* fiber's memoizedState, firstBaseUpdate and lastBaseUpdate are null,
\* shared.pending and shared.interleaved are null, shared.lanes is NoLanes and
\* effects is null. A pass over it before any update is enqueued changes
\* nothing.
C10_InitialQueue ==
    [][/\ last'.op = "initialize"
            => \E f \in 1..2 :
                  /\ fibers[f].updateQueue = Null
                  /\ fibers'[f].updateQueue # Null
                  /\ queues'[fibers'[f].updateQueue].baseState = fibers[f].memoizedState
                  /\ queues'[fibers'[f].updateQueue].firstBaseUpdate = Null
                  /\ queues'[fibers'[f].updateQueue].lastBaseUpdate = Null
                  /\ queues'[fibers'[f].updateQueue].effects = NoEffects
                  /\ shared' = [pending |-> Null, interleaved |-> Null, lanes |-> NoLanes]
                  /\ fibers'[f].memoizedState = fibers[f].memoizedState
       /\ (IsPass /\ heap = <<>>)
            => UNCHANGED <<heap, queues, shared, fibers, hasForceUpdate>>
      ]_vars

\* C10 witness: a pass has run over the queue of the mount before any update
\* was created.
C10_Witness ==
    /\ last.op = "process"
    /\ ~last.walked
    /\ heap = <<>>
    /\ clock = 0
    /\ current = Null
    /\ WipQueue.baseState = origState
    /\ fibers[workInProgress].memoizedState = origState


\* The step links a new update into a queue.
IsEnqueue == last'.op = "enqueue" /\ last'.linked
InterleavedTimes == Times(Objects(heap, InterleavedList(heap, shared)))

\* C11: Interleaved enqueue. While isInterleavedUpdate holds, enqueueUpdate
\* appends the update to the circular shared.interleaved list and leaves
\* shared.pending and the pending list as they are; the queue is registered
\* with pushInterleavedQueue for the first interleaved update only. A pass
\* that runs before the interleaved list is merged neither applies nor skips
\* an interleaved update: the state is computed from the base and pending
\* lists alone and the interleaved list stays as it is.
C11_InterleavedEnqueue ==
    [][/\ (IsEnqueue /\ isInterleavedUpdate(workInProgress, NoLane))
            => /\ shared'.pending = shared.pending
               /\ PendingList(heap', shared') = PendingList(heap, shared)
               /\ Times(Objects(heap', InterleavedList(heap', shared')))
                     = Append(InterleavedTimes, clock')
               /\ heap'[shared'.interleaved].eventTime = clock'
               /\ interleavedQueues' =
                     IF shared.interleaved = Null
                     THEN Append(interleavedQueues, WipQueue.shared)
                     ELSE interleavedQueues
       /\ (IsPass /\ shared.interleaved # Null)
            => /\ \A t \in Elems(InterleavedTimes) :
                     t \notin Elems(last'.applied) \cup Elems(last'.skipped)
               /\ InterleavedList(heap', shared') = InterleavedList(heap, shared)
               /\ shared'.interleaved = shared.interleaved
               /\ fibers'[workInProgress'].memoizedState =
                     FoldUpdates(WipQueue.baseState, Sufficient(PreList, PassLanes))
      ]_vars

\* C11 witness: two updates were enqueued during a render and sit on the
\* interleaved list; a pass at their lanes has then applied an older pending
\* update and left them out of the state.
C11_Witness ==
    /\ last.op = "process"
    /\ Len(InterleavedList(heap, shared)) >= 2
    /\ Len(interleavedQueues) = 1
    /\ shared.pending = Null
    /\ Len(last.applied) >= 1
    /\ \A i \in 1..Len(InterleavedList(heap, shared)) :
          /\ isSubsetOfLanes(last.renderLanes, heap[InterleavedList(heap, shared)[i]].lane)
          /\ Letter(heap[InterleavedList(heap, shared)[i]].eventTime)
                \notin Elems(LogOf(fibers[workInProgress].memoizedState))


\* The updates the pass of this step applies, the last of them, the state it
\* is applied to, and the state the pass leaves on the fiber.
SuffList == Sufficient(PreList, PassLanes)
LastSufficient == SuffList[Len(SuffList)]
StateBeforeLast ==
    FoldUpdates(WipQueue.baseState, SubSeq(SuffList, 1, Len(SuffList) - 1))
MemoAfter == fibers'[workInProgress'].memoizedState
\* The last update the pass applies has tag t.
LastApplies(t) == IsPass /\ Len(SuffList) >= 1 /\ LastSufficient.tag = t
\* What the payloads evaluate to on the state prev: the object itself, or the
\* value the updater function returns.
PayloadValue(payload, prev) ==
    CASE payload.kind = "obj" -> payload.arg
      [] payload.kind = "inc" ->
            [k \in {"count"} |-> Plus(CountOf(prev), payload.arg["count"])]
      [] payload.kind = "app" ->
            [k \in {"log"} |-> LogOf(prev) \o payload.arg["log"]]
      [] OTHER -> EmptyObj
IsShallowMerge(result, prev, partial) ==
    /\ DOMAIN result = (DOMAIN prev) \cup (DOMAIN partial)
    /\ \A k \in DOMAIN partial : result[k] = partial[k]
    /\ \A k \in (DOMAIN prev) \ (DOMAIN partial) : result[k] = prev[k]

\* C12: Replace reducer. When the last update a pass applies has tag
\* ReplaceState, the new state is exactly the payload, or exactly what the
\* payload function returns for the state before it; no key of the previous
\* state survives unless it is in that value.
C12_ReplaceReducer ==
    [][(LastApplies(ReplaceState)
           /\ LastSufficient.payload.kind \in {"obj", "inc", "app"})
          => /\ MemoAfter = PayloadValue(LastSufficient.payload, StateBeforeLast)
             /\ DOMAIN MemoAfter = DOMAIN PayloadValue(LastSufficient.payload, StateBeforeLast)
      ]_vars

\* C12 witness: after {count: 1} was merged into a state that has a log, a
\* replacing updater function gave {count: 2}, and the log is gone.
C12_Witness ==
    /\ last.op = "process"
    /\ last.applied = <<1, 2>>
    /\ Len(history) = 2
    /\ history[1].tag = UpdateState /\ history[1].payload.kind = "obj"
    /\ history[2].tag = ReplaceState /\ history[2].payload.kind = "inc"
    /\ "log" \in DOMAIN last.before.memoizedState
    /\ DOMAIN fibers[workInProgress].memoizedState = {"count"}
    /\ fibers[workInProgress].memoizedState["count"] = 2

\* C13: Update reducer. When the last update a pass applies has tag
\* UpdateState and a partial state that is not null, the new state is the
\* state before it shallow-merged with the partial state: the keys of the
\* partial state override, every other key is kept. The objects the previous
\* state may be (the state and base state of the current fiber) are not
\* changed.
C13_UpdateReducer ==
    [][(LastApplies(UpdateState)
           /\ LastSufficient.payload.kind \in {"obj", "inc", "app"})
          => /\ IsShallowMerge(MemoAfter, StateBeforeLast,
                               PayloadValue(LastSufficient.payload, StateBeforeLast))
             /\ current # Null
                   => /\ fibers'[current].memoizedState = fibers[current].memoizedState
                      /\ queues'[fibers[current].updateQueue].baseState = CurrentQueue.baseState
      ]_vars

\* C13 witness: the updater appended a letter to the log and {count: 1} was
\* then merged in: the count is overridden, the log is kept.
C13_Witness ==
    /\ last.op = "process"
    /\ last.applied = <<1, 2>>
    /\ Len(history) = 2
    /\ history[1].tag = UpdateState /\ history[1].payload.kind = "app"
    /\ history[2].tag = UpdateState /\ history[2].payload.kind = "obj"
    /\ last.before.memoizedState = [count |-> 0, log |-> <<>>]
    /\ fibers[workInProgress].memoizedState = [count |-> 1, log |-> <<"A">>]

\* C14: Force reducer. An applied ForceUpdate update returns the previous
\* state unchanged and sets the force-update marker:
\* checkHasForceUpdateAfterProcessing() is true after the pass.
C14_ForceReducer ==
    [][/\ (IsPass /\ \E i \in 1..Len(SuffList) : SuffList[i].tag = ForceUpdate)
            => checkHasForceUpdateAfterProcessing'
       /\ LastApplies(ForceUpdate) => MemoAfter = StateBeforeLast
      ]_vars

\* C14 witness: a pass applied a state update and then a ForceUpdate; the
\* marker is set and the state is the one the first update gave.
C14_Witness ==
    /\ last.op = "process"
    /\ last.applied = <<1, 2>>
    /\ Len(history) = 2
    /\ history[1].tag = UpdateState /\ history[1].payload.kind = "obj"
    /\ history[2].tag = ForceUpdate
    /\ checkHasForceUpdateAfterProcessing
    /\ fibers[workInProgress].memoizedState = [count |-> 1, log |-> <<>>]

\* C15: Capture reducer. A pass that applies a CaptureUpdate update clears
\* ShouldCapture and sets DidCapture on the work-in-progress fiber; every other
\* flag stays as it was (Callback is added by an applied update that has a
\* callback); the state is computed as for an UpdateState update with the same
\* payload.
C15_CaptureReducer ==
    [][/\ (IsPass /\ \E i \in 1..Len(SuffList) : SuffList[i].tag = CaptureUpdate)
            => fibers'[workInProgress'].flags =
                  ((fibers[workInProgress].flags \ {ShouldCapture}) \cup {DidCapture})
                     \cup (IF \E i \in 1..Len(SuffList) : SuffList[i].callback # Null
                           THEN {Callback} ELSE {})
       /\ (LastApplies(CaptureUpdate)
              /\ LastSufficient.payload.kind \in {"obj", "inc", "app"})
            => IsShallowMerge(MemoAfter, StateBeforeLast,
                              PayloadValue(LastSufficient.payload, StateBeforeLast))
      ]_vars

\* C15 witness: the fiber had Callback set by an earlier pass and ShouldCapture
\* set by the throw; the pass applied the captured updater, which appended its
\* letter to the log, and the flags are now Callback and DidCapture.
C15_Witness ==
    /\ last.op = "process"
    /\ passes = 2
    /\ fibers[workInProgress].flags = {Callback, DidCapture}
    /\ \E r \in 1..Len(heap) :
          /\ heap[r].tag = CaptureUpdate
          /\ heap[r].payload.kind = "app"
          /\ last.applied = <<heap[r].eventTime>>
          /\ LogOf(fibers[workInProgress].memoizedState) = heap[r].payload.arg["log"]


\* The updates of the walked list that the pass applies and that have a
\* callback, as references.
AppliedWithCallback ==
    SelectSeq(MergedList,
              LAMBDA r : ~IsSkipped(heap[r], PassLanes) /\ heap[r].callback # Null)

\* C16: Callback queuing. In a pass an update is appended to queue.effects,
\* and the Callback flag is set on the fiber, if and only if the update is
\* applied in the pass and its callback is non-null; the callback of a skipped
\* update is not queued in that pass.
C16_CallbackQueuing ==
    [][IsPass =>
        /\ WipQueueAfter.effects = WipQueue.effects \o AppliedWithCallback
        /\ (Callback \in fibers'[workInProgress'].flags)
              <=> (Callback \in fibers[workInProgress].flags \/ AppliedWithCallback # <<>>)
        /\ \A i \in 1..Len(MergedList) :
              IsSkipped(heap[MergedList[i]], PassLanes)
                 => MergedList[i] \notin Elems(WipQueueAfter.effects) \ Elems(WipQueue.effects)
      ]_vars

\* C16 witness: of two updates with a callback the pass applied one and
\* skipped the other, and applied a third that has no callback: the effects
\* hold the first alone and the fiber has the Callback flag.
C16_Witness ==
    /\ last.op = "process"
    /\ Len(last.applied) = 2
    /\ Len(last.skipped) = 1
    /\ Len(WipQueue.effects) = 1
    /\ heap[WipQueue.effects[1]].eventTime \in Elems(last.applied)
    /\ Callback \in fibers[workInProgress].flags
    /\ \E i \in 1..Len(history) :
          history[i].eventTime \in Elems(last.skipped) /\ history[i].callback # Null
    /\ \E i \in 1..Len(history) :
          history[i].eventTime \in Elems(last.applied) /\ history[i].callback = Null


\* The queue references of the two fibers, and the step being a
\* cloneUpdateQueue call.
WipRef == fibers[workInProgress].updateQueue
CurrentRef == fibers[current].updateQueue
IsCloneCall == last'.op = "clone"
BothQueues == current # Null /\ workInProgress # Null /\ CurrentRef # Null /\ WipRef # Null

\* C17: cloneUpdateQueue gives the work-in-progress fiber a queue object of
\* its own only when its queue is the very object of the current fiber; the
\* clone has the baseState, firstBaseUpdate, lastBaseUpdate and effects of the
\* current queue and the same shared object, so that an update enqueued
\* afterwards is seen through both queues; when the work-in-progress queue is
\* already another object the call changes nothing.
C17_CloneUpdateQueue ==
    [][/\ (IsCloneCall /\ WipRef = CurrentRef)
            => /\ fibers'[workInProgress].updateQueue # CurrentRef
               /\ fibers'[current] = fibers[current]
               /\ queues'[CurrentRef] = queues[CurrentRef]
               /\ WipQueueAfter.baseState = CurrentQueue.baseState
               /\ WipQueueAfter.firstBaseUpdate = CurrentQueue.firstBaseUpdate
               /\ WipQueueAfter.lastBaseUpdate = CurrentQueue.lastBaseUpdate
               /\ WipQueueAfter.effects = CurrentQueue.effects
               /\ WipQueueAfter.shared = CurrentQueue.shared
               /\ UNCHANGED <<heap, shared>>
       /\ (IsCloneCall /\ WipRef # CurrentRef)
            => UNCHANGED <<heap, queues, shared, fibers>>
       /\ (IsEnqueue /\ BothQueues /\ WipRef # CurrentRef)
            => /\ queues'[WipRef].shared = queues'[CurrentRef].shared
               /\ queues'[WipRef].shared # Null
               /\ clock' \in Elems(Times(Objects(heap', PendingList(heap', shared')
                                                        \o InterleavedList(heap', shared'))))
      ]_vars

\* C17 witness: the work-in-progress queue is a clone that carries the base
\* list of the current queue, and an update was enqueued after the clone was
\* made.
C17_Witness ==
    /\ last.op = "enqueue"
    /\ last.linked
    /\ BothQueues
    /\ WipRef # CurrentRef
    /\ WipQueue.shared = CurrentQueue.shared
    /\ WipQueue.firstBaseUpdate # Null
    /\ WipQueue.firstBaseUpdate = CurrentQueue.firstBaseUpdate
    /\ WipQueue.baseState = CurrentQueue.baseState


\* The letters of the committed state, and the updates (by event time) that
\* were enqueued and whose letter is not in it.
CommittedLog == LogOf(fibers[current].memoizedState)
Uncommitted == {t \in 1..clock : Letter(t) \notin Elems(CommittedLog)}
QueueTimes(refs) == Elems(Times(Objects(heap, refs)))
NoDuplicates(s) == \A i \in 1..Len(s) : \A j \in 1..Len(s) : s[i] = s[j] => i = j

\* C18: No update is lost on restart. When a work-in-progress fiber is created
\* from current, also after the previous one was abandoned at any point, every
\* update that was enqueued and is not in the committed state is on the base
\* list of its queue or on shared.pending; when cloneUpdateQueue makes the
\* clone the same holds, the updates enqueued since being on
\* shared.interleaved. The
\* committed state never holds the same update twice.
C18_NoUpdateLost ==
    /\ (last.op = "createWorkInProgress")
          => Uncommitted \subseteq
                QueueTimes(BaseList(heap, WipQueue) \o PendingList(heap, shared))
    /\ (last.op = "clone" /\ last.cloned)
          => Uncommitted \subseteq
                QueueTimes(BaseList(heap, WipQueue) \o PendingList(heap, shared)
                              \o InterleavedList(heap, shared))
    /\ current # Null => NoDuplicates(CommittedLog)

\* C18 witness: a render that had moved two pending updates to the base list
\* was abandoned after a commit; the new work-in-progress queue has both, not
\* committed, on its base list.
C18_Witness ==
    /\ last.op = "createWorkInProgress"
    /\ last.restart
    /\ shared.pending = Null
    /\ Len(CommittedLog) >= 1
    /\ Len(BaseList(heap, WipQueue)) >= 2
    /\ \A i \in 1..Len(BaseList(heap, WipQueue)) :
          heap[BaseList(heap, WipQueue)[i]].eventTime \in Uncommitted
    /\ \E r \in 1..Len(heap) : heap[r].lane = NoLane


\* A render restarted from `current` in the state (h, qs, sh, fs): the
\* interleaved updates are merged, the work-in-progress fiber is reset from
\* current, its queue is cloned and processed at renderLanes.
RestartedQueues(qs, fs, cur) ==
    [qs EXCEPT ![FreeQueueRef(fs[cur].updateQueue)] = CloneOf(qs[fs[cur].updateQueue])]
RestartedFibers(fs, cur) ==
    [fs EXCEPT ![3 - cur] = [FreshFiber(fs, cur) EXCEPT
                                !.updateQueue = FreeQueueRef(fs[cur].updateQueue)]]
\* (The singleton sets bind each intermediate value once.)
RestartedPass(h, qs, sh, fs, cur, renderLanes) ==
    {ProcessResult(m.heap, q, m.shared, f, 3 - cur, Props, Instance, renderLanes) :
        m \in {MergeInterleaved(h, sh)},
        q \in {RestartedQueues(qs, fs, cur)},
        f \in {RestartedFibers(fs, cur)}}
\* What the passes rs computed for the fiber wip.
Outcome(rs, wip) ==
    {[memoizedState |-> r.fibers[wip].memoizedState,
      baseState |-> r.queues[r.fibers[wip].updateQueue].baseState,
      lanes |-> r.fibers[wip].lanes] : r \in rs}
\* A step of a render that is not committed: the clone, a pass, the restart.
IsRenderStep ==
    /\ current # Null
    /\ last'.op \in {"clone", "process", "createWorkInProgress"}
    /\ last' # last \/ passes' # passes

\* C19: An abandoned render pass needs no compensating action. Cloning the
\* queue, processing it on the work-in-progress fiber and discarding that fiber
\* leave memoizedState of the current fiber and baseState of its queue as they
\* were, and a render restarted from current after any of these steps computes,
\* at every renderLanes, the memoizedState, baseState and remaining lanes that
\* a render restarted before the step computes.
C19_AbandonedPass ==
    [][IsRenderStep =>
         /\ fibers'[current].memoizedState = fibers[current].memoizedState
         /\ queues'[fibers'[current].updateQueue].baseState
               = queues[fibers[current].updateQueue].baseState
         /\ \A renderLanes \in RenderLanes :
               Outcome(RestartedPass(heap', queues', shared', fibers', current,
                                     renderLanes), 3 - current)
                  = Outcome(RestartedPass(heap, queues, shared, fibers, current,
                                          renderLanes), 3 - current)]_vars

\* C19 witness: the work-in-progress fiber was discarded right after a pass
\* that had applied an update to it, and the current queue holds the updates
\* that pass had taken from the pending list.
C19_Witness ==
    /\ last.op = "createWorkInProgress"
    /\ last.restart
    /\ last.abandoned # <<>>
    /\ shared.pending = Null
    /\ queues[fibers[current].updateQueue].firstBaseUpdate # Null
    /\ fibers[workInProgress].memoizedState = fibers[current].memoizedState


\* A commit step (two commits never follow each other without a pass).
IsCommit == last.op # "commit" /\ last'.op = "commit"
CommitOrder == <<"beforeMutation", "mutation", "layout", "current">>

Placement == "Placement"
Keys == 1..MaxKeys
ElementTypes == {"A", "B"}
Elements == [key : Keys \cup {Null}, type : ElementTypes]
UniqueKeys(els) ==
    \A i \in 1..Len(els) : \A j \in 1..Len(els) :
        (i # j /\ els[i].key # Null) => els[i].key # els[j].key
ElementLists ==
    {els \in UNION {[1..n -> Elements] : n \in 0..MaxChildren} : UniqueKeys(els)}

\* A child fiber: `id` is the identity of the fiber pair, `alternate` the id of
\* the current fiber it was cloned from (Null for a fiber just created).
createFiberFromElement(id, element) ==
    [id |-> id, key |-> element.key, type |-> element.type, index |-> 0,
     flags |-> NoFlags, alternate |-> Null]
useFiber(fiber) ==
    [fiber EXCEPT !.index = 0, !.flags = NoFlags, !.alternate = fiber.id]
FiberById(fs, id) == CHOOSE f \in {fs[i] : i \in 1..Len(fs)} : f.id = id

\* The reconciliation in progress.
ReconcileStart(nextId) ==
    [children |-> <<>>, deletions |-> <<>>, lastPlacedIndex |-> 0,
     nextId |-> nextId, existing |-> <<>>, newIdx |-> 1]

\* placeChild that marks every reused fiber whose index changed.
placeChildByIndex(r, old, newFiber, newIndex) ==
    IF newFiber.alternate # Null /\ FiberById(old, newFiber.alternate).index = newIndex
    THEN [r EXCEPT !.children = Append(@, [newFiber EXCEPT !.index = newIndex])]
    ELSE [r EXCEPT !.children =
                      Append(@, [newFiber EXCEPT !.index = newIndex,
                                                 !.flags = {Placement}])]

\* placeChild(newFiber, lastPlacedIndex, newIndex): a reused fiber that was to
\* the left of the last fiber left in place is a move; a new fiber is an
\* insertion.
placeChild(r, old, newFiber, newIndex) ==
    IF newFiber.alternate # Null THEN
        IF FiberById(old, newFiber.alternate).index < r.lastPlacedIndex
        THEN [r EXCEPT !.children =
                          Append(@, [newFiber EXCEPT !.index = newIndex,
                                                     !.flags = {Placement}])]
        ELSE [r EXCEPT !.children = Append(@, [newFiber EXCEPT !.index = newIndex]),
                       !.lastPlacedIndex = FiberById(old, newFiber.alternate).index]
    ELSE [r EXCEPT !.children =
                      Append(@, [newFiber EXCEPT !.index = newIndex,
                                                 !.flags = {Placement}])]

\* deleteChild that deletes nothing.
deleteChildKept(r, childToDelete) == r

\* deleteChild(returnFiber, childToDelete)
deleteChild(r, childToDelete) ==
    [r EXCEPT !.deletions = Append(@, childToDelete.id)]

RECURSIVE deleteRemainingChildren(_, _)
deleteRemainingChildren(r, remaining) ==
    IF remaining = <<>> THEN r
    ELSE deleteRemainingChildren(deleteChild(r, Head(remaining)), Tail(remaining))

\* The fiber for `element` in the place of oldFiber, whose key is the
\* element's: the old fiber if the type is the same, else a new fiber, the old
\* one being deleted.
UpdateSlot(r, old, oldFiber, element, newIndex) ==
    IF oldFiber.type = element.type
    THEN placeChild(r, old, useFiber(oldFiber), newIndex)
    ELSE placeChild(deleteChild([r EXCEPT !.nextId = @ + 1], oldFiber), old,
                    createFiberFromElement(r.nextId, element), newIndex)

\* The first loop: old fibers and elements side by side while the keys match.
RECURSIVE SlotLoop(_, _, _, _)
SlotLoop(r, old, els, i) ==
    IF i > Len(els) \/ i > Len(old) THEN [r EXCEPT !.newIdx = i]
    ELSE IF old[i].key # els[i].key THEN [r EXCEPT !.newIdx = i]
    ELSE SlotLoop(UpdateSlot(r, old, old[i], els[i], i - 1), old, els, i + 1)

\* No old fiber is left: every remaining element gets a new fiber.
RECURSIVE CreateLoop(_, _, _, _)
CreateLoop(r, old, els, i) ==
    IF i > Len(els) THEN r
    ELSE CreateLoop(placeChild([r EXCEPT !.nextId = @ + 1], old,
                               createFiberFromElement(r.nextId, els[i]), i - 1),
                    old, els, i + 1)

\* mapRemainingChildren: the old fibers by key, or by index when they have none.
MapKey(key, index) == IF key = Null THEN <<"index", index>> ELSE <<"key", key>>
Matched(existing, element, newIndex) ==
    SelectSeq(existing, LAMBDA f : MapKey(f.key, f.index) = MapKey(element.key, newIndex))
Unmatched(existing, element, newIndex) ==
    SelectSeq(existing, LAMBDA f : MapKey(f.key, f.index) # MapKey(element.key, newIndex))

\* updateFromMap and the bookkeeping of the loop that calls it.
UpdateFromMap(r, old, element, newIndex) ==
    IF Matched(r.existing, element, newIndex) # <<>>
       /\ Matched(r.existing, element, newIndex)[1].type = element.type
    THEN placeChild([r EXCEPT !.existing = Unmatched(r.existing, element, newIndex)],
                    old, useFiber(Matched(r.existing, element, newIndex)[1]), newIndex)
    ELSE placeChild([r EXCEPT !.nextId = @ + 1], old,
                    createFiberFromElement(r.nextId, element), newIndex)

RECURSIVE MapLoop(_, _, _, _)
MapLoop(r, old, els, i) ==
    IF i > Len(els) THEN r
    ELSE MapLoop(UpdateFromMap(r, old, els[i], i - 1), old, els, i + 1)

\* What follows the first loop, which stopped at r.newIdx.
AfterSlotLoop(r, old, els) ==
    IF r.newIdx > Len(els)
    THEN deleteRemainingChildren(r, SubSeq(old, r.newIdx, Len(old)))
    ELSE IF r.newIdx > Len(old)
    THEN CreateLoop(r, old, els, r.newIdx)
    ELSE deleteRemainingChildren(
            [MapLoop([r EXCEPT !.existing = SubSeq(old, r.newIdx, Len(old))],
                     old, els, r.newIdx) EXCEPT !.existing = <<>>],
            MapLoop([r EXCEPT !.existing = SubSeq(old, r.newIdx, Len(old))],
                    old, els, r.newIdx).existing)

\* reconcileChildrenArray(returnFiber, currentFirstChild, newChildren)
reconcileChildrenArray(old, els, nextId) ==
    AfterSlotLoop(SlotLoop(ReconcileStart(nextId), old, els, 1), old, els)

\* The render of the parent fiber reconciles its current children against the
\* elements `els`.
reconcileChildFibers(els) ==
    /\ children.count < MaxReconciles
    /\ children' = [current |-> children.current,
                    work |-> reconcileChildrenArray(children.current, els,
                                                    children.nextId).children,
                    deletions |-> reconcileChildrenArray(children.current, els,
                                                         children.nextId).deletions,
                    elements |-> els,
                    rendering |-> TRUE,
                    nextId |-> reconcileChildrenArray(children.current, els,
                                                      children.nextId).nextId,
                    count |-> children.count + 1]
    /\ UNCHANGED <<queueVars, container, lazies>>

\* The commit makes the reconciled children the current ones.
commitChildren ==
    /\ children.rendering
    /\ children' = [children EXCEPT
                       !.current = [i \in 1..Len(children.work) |->
                                       [children.work[i] EXCEPT !.flags = NoFlags,
                                                                !.alternate = Null]],
                       !.work = <<>>, !.deletions = <<>>, !.rendering = FALSE]
    /\ UNCHANGED <<queueVars, container, lazies>>


\* The update queue plays no part in the specifications of the tree.
InitTree == InitFrom(TagInitStates) /\ mode = "legacy"

NextChildren ==
    \/ \E els \in ElementLists : reconcileChildFibers(els)
    \/ commitChildren

SpecChildren == InitTree /\ [][NextChildren]_vars

\* ================================================= rendering into a container
\* legacyCreateRootFromDOMContainer(container, forceHydrate): a new fiber root
\* for the DOM container c (createLegacyRoot).
legacyCreateRootFromDOMContainer(ct, c) ==
    [ct EXCEPT !.roots = Append(@, [containerInfo |-> c])]

\* updateContainer(element, fiberRoot, parentComponent, callback), and whether
\* it ran inside unbatchedUpdates.
updateContainer(ct, element, fiberRoot, callback, unbatched) ==
    [ct EXCEPT !.calls = Append(@, [element |-> element, root |-> fiberRoot,
                                    callback |-> callback, unbatched |-> unbatched])]

\* The render that creates a root for every call.
RenderedAnew(ct, element, c, callback) ==
    updateContainer(
        [legacyCreateRootFromDOMContainer(ct, c) EXCEPT
            !.dom[c]._reactRootContainer = Len(ct.roots) + 1],
        element, Len(ct.roots) + 1, callback, TRUE)

\* legacyRenderSubtreeIntoContainer(parentComponent, children, container,
\* forceHydrate, callback)
Rendered(ct, element, c, callback) ==
    IF ct.dom[c]._reactRootContainer = Null THEN
        updateContainer(
            [legacyCreateRootFromDOMContainer(ct, c) EXCEPT
                !.dom[c]._reactRootContainer = Len(ct.roots) + 1],
            element, Len(ct.roots) + 1, callback, TRUE)
    ELSE
        updateContainer(ct, element, ct.dom[c]._reactRootContainer, callback, FALSE)

\* render(element, container, callback)
render(element, c, callback) ==
    /\ Len(container.calls) < MaxRenders
    /\ container' = Rendered(container, element, c, callback)
    /\ UNCHANGED <<queueVars, children, lazies>>

NextRender ==
    \E element \in ElementTypes, c \in 1..NumContainers, callback \in {Null, 1} :
        render(element, c, callback)

SpecRender == InitTree /\ [][NextRender]_vars


\* The elements a child list was made from, the fibers a reconciliation has
\* created, those it has marked with Placement, and its number of effects.
ElementsOf(fs) == [i \in 1..Len(fs) |-> [key |-> fs[i].key, type |-> fs[i].type]]
CreatedFibers == {f \in Elems(children.work) : f.alternate = Null}
PlacedFibers == {f \in Elems(children.work) : Placement \in f.flags}
Swapped(els) == <<els[2], els[1]>>
IsKeyedPair(els) ==
    /\ Len(els) = 2
    /\ els[1].key = 1
    /\ els[2].key = 2

\* C21: Keyed reorder. Reconciling the children [A(key=1), B(key=2)] against
\* the elements [B(key=2), A(key=1)], the types being the same, creates no
\* fiber, deletes no fiber and marks exactly one fiber with Placement (the
\* fiber of A, which moves behind B).
C21_KeyedReorder ==
    (/\ children.rendering
     /\ IsKeyedPair(ElementsOf(children.current))
     /\ children.elements = Swapped(ElementsOf(children.current)))
    => /\ CreatedFibers = {}
       /\ children.deletions = <<>>
       /\ Cardinality(PlacedFibers) = 1
       /\ \A f \in PlacedFibers : f.key = 1 /\ f.index = 1
       /\ {f.id : f \in Elems(children.work)} = {f.id : f \in Elems(children.current)}

\* C21 witness: the children A(key=1), B(key=2) were committed and have been
\* reconciled against [B(key=2), A(key=1)].
C21_Witness ==
    /\ children.rendering
    /\ ElementsOf(children.current) = <<[key |-> 1, type |-> "A"], [key |-> 2, type |-> "B"]>>
    /\ children.elements = <<[key |-> 2, type |-> "B"], [key |-> 1, type |-> "A"]>>
    /\ Len(children.work) = 2


KeysOf(els) == {els[i].key : i \in 1..Len(els)}
\* Every child and every element has a key and no key is on both sides.
ShareNoKey(old, els) ==
    /\ Null \notin KeysOf(old) \cup KeysOf(els)
    /\ KeysOf(old) \cap KeysOf(els) = {}
\* The creations and deletions of the reconciliation.
DiffEffects == Cardinality(CreatedFibers) + Len(children.deletions)
Max(a, b) == IF a >= b THEN a ELSE b

\* C22 (as stated): reconciling n children against m elements that share no
\* key produces exactly max(n, m) creations and deletions.
C22_MaxEffects ==
    (children.rendering /\ ShareNoKey(children.current, children.elements))
    => DiffEffects = Max(Len(children.current), Len(children.elements))

\* C22: Diff linearity. Reconciling n children against m elements that share
\* no key deletes each of the n children and creates a fiber, marked with
\* Placement, for each of the m elements: exactly n + m creations and
\* deletions, never more.
C22_DiffLinearity ==
    (children.rendering /\ ShareNoKey(children.current, children.elements))
    => /\ Len(children.deletions) = Len(children.current)
       /\ Elems(children.deletions) = {f.id : f \in Elems(children.current)}
       /\ Cardinality(CreatedFibers) = Len(children.elements)
       /\ PlacedFibers = CreatedFibers
       /\ DiffEffects = Len(children.current) + Len(children.elements)

\* C22 witness: two children reconciled against one element with another key.
C22_Witness ==
    /\ children.rendering
    /\ Len(children.current) = 2
    /\ Len(children.elements) = 1
    /\ ShareNoKey(children.current, children.elements)
    /\ DiffEffects = 3


\* A render call, the updateContainer call it has made, and the DOM container
\* it was given (the containerInfo of the root it updated).
IsRender == container' # container
LastCall == container'.calls[Len(container'.calls)]
RenderedInto(c) == container'.roots[LastCall.root].containerInfo = c

\* C23: Rendering into a container creates its fiber root at most once. A
\* render call on a container without _reactRootContainer creates a root,
\* stores it on the container and calls updateContainer for it inside
\* unbatchedUpdates; a render call on a container that has one creates no
\* root, leaves the container as it is and calls updateContainer for the
\* stored root directly. No two roots are ever created for one container.
C23_RootCreatedOnce ==
    [][IsRender =>
         /\ Len(container'.calls) = Len(container.calls) + 1
         /\ \E c \in 1..NumContainers :
               /\ RenderedInto(c)
               /\ \A d \in (1..NumContainers) \ {c} :
                     container'.dom[d] = container.dom[d]
               /\ IF container.dom[c]._reactRootContainer = Null
                  THEN /\ container'.roots = Append(container.roots, [containerInfo |-> c])
                       /\ container'.dom[c]._reactRootContainer = Len(container'.roots)
                       /\ LastCall.root = Len(container'.roots)
                       /\ LastCall.unbatched
                  ELSE /\ container'.roots = container.roots
                       /\ container'.dom[c] = container.dom[c]
                       /\ LastCall.root = container.dom[c]._reactRootContainer
                       /\ ~LastCall.unbatched
         /\ \A i \in 1..Len(container'.roots) : \A j \in 1..Len(container'.roots) :
               container'.roots[i].containerInfo = container'.roots[j].containerInfo
                  => i = j
      ]_vars

\* C23 witness: three render calls, two of them into the same container: the
\* first of the two created the root, the second reused it.
C23_Witness ==
    /\ Len(container.calls) = 3
    /\ Len(container.roots) = 2
    /\ container.calls[1].root = container.calls[3].root
    /\ container.calls[1].unbatched
    /\ ~container.calls[3].unbatched
    /\ container.calls[2].root # container.calls[1].root


\* The circular list whose last element is lastU is a single cycle through
\* updates in enqueue order: following `next` from lastU.next comes back to
\* lastU, the oldest update first, without visiting an update twice.
IsSingleCycle(h, lastU) ==
    lastU # Null =>
        /\ CircularList(h, lastU) # <<>>
        /\ CircularList(h, lastU)[Len(CircularList(h, lastU))] = lastU
        /\ h[lastU].next = CircularList(h, lastU)[1]
        /\ IsIncreasing(EventTimes(h, CircularList(h, lastU)))
        /\ \A i \in 1..(Len(CircularList(h, lastU)) - 1) :
              h[CircularList(h, lastU)[i]].next = CircularList(h, lastU)[i + 1]
NewRef == Len(heap) + 1

\* C24: Pending list shape. shared.pending is null or the most recently
\* enqueued pending update, whose next is the oldest one, and following next
\* from there visits every pending update once, in enqueue order, and returns
\* to shared.pending; a non-interleaved enqueueUpdate appends the new update
\* to that cycle and makes shared.pending point to it. The same holds of
\* shared.interleaved and the interleaved enqueues.
C24_PendingListShape ==
    [][/\ IsSingleCycle(heap', shared'.pending)
       /\ IsSingleCycle(heap', shared'.interleaved)
       /\ (IsEnqueue /\ ~last'.interleaved)
             => /\ shared'.pending = NewRef
                /\ PendingList(heap', shared') = Append(PendingList(heap, shared), NewRef)
                /\ InterleavedList(heap', shared') = InterleavedList(heap, shared)
       /\ (IsEnqueue /\ last'.interleaved)
             => /\ shared'.interleaved = NewRef
                /\ InterleavedList(heap', shared')
                      = Append(InterleavedList(heap, shared), NewRef)
                /\ PendingList(heap', shared') = PendingList(heap, shared)
      ]_vars

\* C24 witness: two updates on the pending cycle and two on the interleaved
\* cycle, the last of them just enqueued.
C24_Witness ==
    /\ last.op = "enqueue"
    /\ Len(PendingList(heap, shared)) = 2
    /\ Len(InterleavedList(heap, shared)) = 2
    /\ heap[shared.interleaved].eventTime = clock


\* The base list and the pending list when the pass starts, and what the pass
\* has at hand once it has transferred the pending list.
PendingBefore == PendingList(heap, shared)
Transferred == TransferPending(heap, queues, shared, fibers, workInProgress)
CurrentQueueAfter == queues'[fibers'[current'].updateQueue]

\* C25: Pending transfer. A pass that finds shared.pending non-null sets it
\* to null, cuts the cycle and walks the base list of the work-in-progress
\* queue followed by the pending updates in order; when there is a current
\* fiber the pending updates are appended after the last base update of its
\* queue as well, so that both lists end with the same pending updates.
C25_PendingTransfer ==
    [][(IsPass /\ shared.pending # Null) =>
         /\ shared'.pending = Null
         /\ Transferred.pending = Null
         /\ Transferred.heap[shared.pending].next = Null
         /\ heap'[shared.pending].next = Null
         /\ Transferred.last = shared.pending
         /\ ListFrom(Transferred.heap, Transferred.first, Null, Len(heap))
               = BaseList(heap, WipQueue) \o PendingBefore
         /\ fibers[workInProgress].alternate # Null =>
               /\ fibers[workInProgress].alternate = current
               /\ CurrentQueueAfter.lastBaseUpdate = shared.pending
               /\ BaseList(heap', CurrentQueueAfter)
                     = BaseList(heap, CurrentQueue) \o PendingBefore
               /\ BaseList(Transferred.heap, Transferred.queues[fibers[current].updateQueue])
                     = BaseList(heap, CurrentQueue) \o PendingBefore
      ]_vars

\* C25 witness: a pass has moved a pending update behind a base update that
\* the current queue had kept from the commit before.
C25_Witness ==
    /\ last.op = "process"
    /\ current # Null
    /\ shared.pending = Null
    /\ Len(BaseList(heap, CurrentQueue)) >= 2
    /\ heap[CurrentQueue.firstBaseUpdate].lane # NoLane
    /\ heap[CurrentQueue.lastBaseUpdate].eventTime \in Elems(last.applied)
    /\ heap[CurrentQueue.firstBaseUpdate].eventTime \in Elems(last.skipped)
    /\ CurrentQueue.lastBaseUpdate # WipQueue.lastBaseUpdate


\* The union of the lanes of the updates us.
LanesOf(us) == UNION {us[i].lane : i \in 1..Len(us)}
SkippedNow == SelectSeq(PreList, LAMBDA u : IsSkipped(u, PassLanes))

\* C26: Remaining lanes. After a pass over a non-empty queue the lanes of the
\* work-in-progress fiber are exactly the lanes of the updates the pass
\* skipped together with the lanes of the updates on shared.interleaved
\* (NoLanes when there are none), and markSkippedUpdateLanes is given the same
\* value.
C26_RemainingLanes ==
    [][(IsPass /\ PreList # <<>>) =>
         /\ fibers'[workInProgress].lanes
               = mergeLanes(LanesOf(SkippedNow),
                            LanesOf(Objects(heap, InterleavedList(heap, shared))))
         /\ last'.skippedLanes = fibers'[workInProgress].lanes
         /\ (SkippedNow = <<>> /\ shared.interleaved = Null)
               => fibers'[workInProgress].lanes = NoLanes
      ]_vars

\* C26 witness: a pass has skipped an update of one lane while an update of
\* another lane was on the interleaved list; both lanes remain.
C26_Witness ==
    /\ last.op = "process"
    /\ last.skipped # <<>>
    /\ shared.interleaved # Null
    /\ heap[shared.interleaved].lane
          \notin {heap[WipQueue.firstBaseUpdate].lane}
    /\ fibers[workInProgress].lanes
          = mergeLanes(heap[shared.interleaved].lane, heap[WipQueue.firstBaseUpdate].lane)
    /\ Cardinality(fibers[workInProgress].lanes) = 2


\* C27: queue.shared.lanes is set back to NoLanes once the queue is empty:
\* after a pass that has walked the list, leaves no base update and finds no
\* interleaved update, shared.lanes is NoLanes.
C27_SharedLanesReset ==
    (/\ last.op = "process"
     /\ last.walked
     /\ WipQueue.firstBaseUpdate = Null
     /\ shared.interleaved = Null)
    => shared.lanes = NoLanes


\* The transitions of a root with several transition lanes.
NextEntangle ==
    \/ \E f \in 1..2 : initializeUpdateQueue(f)
    \/ \E f \in 1..2, l \in RootLaneBits : entangleTransitions(f, {l})
    \/ \E lanes \in SUBSET RootLaneBits : setPendingLanes(lanes)

SpecEntangle == Init /\ [][NextEntangle]_vars

\* The step is an entangleTransitions call on a fiber that has a queue.
IsEntangle == last'.op = "entangle" /\ ~last'.unmounted

\* C28: entangleTransitions. For a transition lane shared.lanes becomes
\* (shared.lanes AND root.pendingLanes) OR lane and markRootEntangled is
\* called with that value, also when the lane was in shared.lanes already;
\* for another lane the shared queue and the root stay as they are. After the
\* call shared.lanes holds only the new lane and lanes pending on the root.
C28_EntangleTransitions ==
    [][IsEntangle =>
         IF isTransitionLane(last'.lane)
         THEN /\ shared'.lanes
                    = mergeLanes(intersectLanes(shared.lanes, root.pendingLanes),
                                 last'.lane)
              /\ last'.entangled
              /\ last'.marked = shared'.lanes
              /\ root'.entangledLanes = mergeLanes(root.entangledLanes, shared'.lanes)
              /\ root'.pendingLanes = root.pendingLanes
              /\ isSubsetOfLanes(mergeLanes(last'.lane, root.pendingLanes), shared'.lanes)
         ELSE /\ ~last'.entangled
              /\ UNCHANGED <<shared, root>>
      ]_vars

\* C28 witness: lane 3 has been entangled on a queue whose lanes held lane 2,
\* which is no longer pending on the root: shared.lanes is lane 3 alone, while
\* the root keeps both entangled.
C28_Witness ==
    /\ last.op = "entangle"
    /\ last.entangled
    /\ last.lane = {3}
    /\ shared.lanes = {3}
    /\ root.entangledLanes = {2, 3}
    /\ 2 \notin root.pendingLanes


\* The step is an enqueueCapturedUpdate call; the captured update is the
\* object the step allocates first.
IsCapture == last'.op = "capture" /\ clock' = clock + 1
CapturedRef == Len(heap) + 1
\* The fields of the updates refs point to in heap h, `next` left out.
Contents(h, refs) == [i \in 1..Len(refs) |-> [h[refs[i]] EXCEPT !.next = Null]]
\* The base lists of the work-in-progress queue before and after the step.
WipBaseBefore == BaseList(heap, WipQueue)
WipBaseAfter == BaseList(heap', WipQueueAfter)
\* The update objects the current fiber's queue reaches after the step.
CurrentReachAfter ==
    IF current' = Null \/ fibers'[current'].updateQueue = Null THEN {}
    ELSE Elems(BaseList(heap', CurrentQueueAfter)) \cup Elems(PendingList(heap', shared'))

\* C29: captured updates live only on the work-in-progress queue. After
\* enqueueCapturedUpdate(workInProgress, u), u is the last element of the
\* work-in-progress queue's base list, u is reachable neither from the
\* current queue's firstBaseUpdate nor from shared.pending, and the updates
\* that were in the base list keep their order and content.
C29_CapturedOnWorkInProgress ==
    [][IsCapture =>
         /\ WipBaseAfter # <<>>
         /\ WipBaseAfter[Len(WipBaseAfter)] = CapturedRef
         /\ CapturedRef \notin CurrentReachAfter
         /\ Contents(heap', SubSeq(WipBaseAfter, 1, Len(WipBaseAfter) - 1))
               = Contents(heap, WipBaseBefore)
      ]_vars


\* C29 witness: a fiber that bailed out captured an update while its queue was
\* the current queue with one base update. The work-in-progress queue is now
\* a queue of its own with the clone and the captured update, and the current
\* queue still has its one base update.
C29_Witness ==
    /\ last.op = "capture"
    /\ last.cloned
    /\ current # Null
    /\ Len(BaseList(heap, WipQueue)) = 2
    /\ heap[WipQueue.lastBaseUpdate].tag = CaptureUpdate
    /\ Len(BaseList(heap, CurrentQueue)) = 1
    /\ Elems(BaseList(heap, WipQueue)) \cap Elems(BaseList(heap, CurrentQueue)) = {}


\* The queue whose updater functions may schedule updates while the queue is
\* being processed.
NextReentrant ==
    \/ \E f \in 1..2 : initializeUpdateQueue(f)
    \/ \E f \in 1..2, l \in LaneBits, k \in ReentrantKinds(clock + 1) :
          clock < MaxReentrantUpdates /\ enqueueUpdate(f, {l}, k)
    \/ cloneUpdateQueue(current, workInProgress)
    \/ \E rl \in RenderLanes : passes < MaxReentrantPasses /\ processUpdateQueue(rl)
    \/ commitRoot
    \/ createWorkInProgress

SpecReentrant == InitLetters /\ [][NextReentrant]_vars


\* The step is a processUpdateQueue pass during which updater functions
\* scheduled updates that went on shared.pending.
IsReentrantPass ==
    /\ last'.op = "process"
    /\ passes' = passes + 1
    /\ last'.reentered # <<>>
    /\ ~isInterleavedUpdate(workInProgress, ReentrantLane)
\* The update object that was created at event time t (its clones come later).
OriginalRef(h, t) ==
    CHOOSE i \in DOMAIN h : h[i].eventTime = t /\ \A j \in 1..(i - 1) : h[j].eventTime # t
\* The objects created at the times ts are linked by `next` in this order, and
\* the list ends at the last of them.
IsLinearList(h, ts) ==
    \A k \in 1..Len(ts) :
        h[OriginalRef(h, ts[k])].next =
            IF k = Len(ts) THEN Null ELSE OriginalRef(h, ts[k + 1])

\* C30: an update enqueued from inside an updater function while
\* processUpdateQueue walks the list is picked up in the same pass. The new
\* pending updates are unlinked from the cycle and processed after all
\* earlier updates, in enqueue order, and shared.pending is null when the
\* pass ends.
C30_ReentrantEnqueue ==
    [][IsReentrantPass =>
         /\ shared'.pending = Null
         /\ IsIncreasing(last'.reentered)
         /\ last'.visited
               = EventTimes(heap, BaseList(heap, WipQueue) \o PendingList(heap, shared))
                    \o last'.reentered
         /\ IsLinearList(heap', last'.reentered)
         /\ Elems(last'.reentered) \subseteq Elems(last'.applied) \cup Elems(last'.skipped)
      ]_vars

\* C30 witness: a pass over two updates whose updater functions each scheduled
\* an update. The pass visited the four updates in enqueue order, applied the
\* first scheduled update, and left shared.pending null.
C30_Witness ==
    /\ last.op = "process"
    /\ last.reentered = <<3, 4>>
    /\ last.visited = <<1, 2, 3, 4>>
    /\ 3 \in Elems(last.applied)
    /\ shared.pending = Null
    /\ shared.interleaved = Null


\* The queue with callbacks, where commitUpdateQueue is also called again on
\* the committed queue.
NextCommit ==
    \/ \E f \in 1..2 : initializeUpdateQueue(f)
    \/ \E f \in 1..2, l \in LaneBits, k \in UpdateKinds(clock + 1) :
          clock < MaxCommitUpdates /\ enqueueUpdate(f, {l}, k)
    \/ cloneUpdateQueue(current, workInProgress)
    \/ \E rl \in RenderLanes : passes < MaxCommitPasses /\ processUpdateQueue(rl)
    \/ commitRoot
    \/ \E f \in 1..2 : commitUpdateQueue(f)
    \/ createWorkInProgress

SpecCommit == Init /\ [][NextCommit]_vars

\* The callbacks of the effects, in order, as the heap h has them (an effect
\* whose callback is null has none to call).
CallbacksOf(h, effects) ==
    SelectSeq([i \in 1..Len(effects) |-> h[effects[i]].callback], LAMBDA cb : cb # Null)
\* Every invocation ran with the instance as `this` and found the callback of
\* its effect cleared.
InvokedCleared(invoked) ==
    \A i \in 1..Len(invoked) : invoked[i].this = Instance /\ invoked[i].cleared
CallbacksInvoked(invoked) == [i \in 1..Len(invoked) |-> invoked[i].callback]

\* C31: commitUpdateQueue sets finishedQueue.effects to null and invokes the
\* callbacks of the queued effects in the order they were queued, each with
\* the instance as `this` and with the effect's callback cleared before the
\* call. A second commitUpdateQueue on the same queue without a
\* processUpdateQueue in between invokes no callback.
C31_CommitUpdateQueue ==
    [][/\ last'.op = "commit" =>
            /\ queues'[WipRef].effects = NoEffects
            /\ CallbacksInvoked(last'.invoked) = CallbacksOf(heap, WipQueue.effects)
            /\ called' = called \o CallbacksOf(heap, WipQueue.effects)
            /\ InvokedCleared(last'.invoked)
            /\ \A i \in 1..Len(WipQueue.effects) :
                  heap'[WipQueue.effects[i]].callback = Null
       /\ last'.op = "commitUpdateQueue" =>
            /\ queues'[CurrentRef].effects = NoEffects
            /\ last'.invoked = <<>>
            /\ called' = called
      ]_vars

\* C31 witness: a commit has invoked the callbacks of two effects in the order
\* they were queued, and commitUpdateQueue has then been called again.
C31_Witness ==
    /\ last.op = "commitUpdateQueue"
    /\ Len(called) = 2
    /\ called[1] < called[2]
    /\ CurrentQueue.effects = NoEffects


\* C32: each update's callback is invoked at most once, over any sequence of
\* enqueueUpdate calls, processUpdateQueue passes at arbitrary renderLanes and
\* commits, including passes that replay a carried-over update: no callback
\* appears twice among the callbacks invoked.
C32_CallbackAtMostOnce == NoDuplicates(called)


\* The queue with updates whose partial state is null or undefined.
NextNull ==
    \/ \E f \in 1..2 : initializeUpdateQueue(f)
    \/ \E f \in 1..2, l \in LaneBits, k \in NullKinds(clock + 1) :
          clock < MaxNullUpdates /\ enqueueUpdate(f, {l}, k)
    \/ \E l \in LaneBits, k \in CaptureNullKinds(clock + 1) :
          clock < MaxNullUpdates /\ throwException({l}, k)
    \/ cloneUpdateQueue(current, workInProgress)
    \/ \E rl \in RenderLanes : passes < MaxNullPasses /\ processUpdateQueue(rl)
    \/ commitRoot
    \/ createWorkInProgress

SpecNull == InitTags /\ [][NextNull]_vars

\* The payload kinds whose partial state is null or undefined.
NullPayloads == {"null", "undefined", "nul", "und"}
\* The last update the pass applies is an UpdateState or CaptureUpdate update
\* whose partial state is null or undefined.
LastAppliesNull ==
    /\ IsPass
    /\ Len(SuffList) >= 1
    /\ LastSufficient.tag \in {UpdateState, CaptureUpdate}
    /\ LastSufficient.payload.kind \in NullPayloads
\* The event times of the updates on queue.effects after the pass.
EffectTimesAfter == Elems(EventTimes(heap', WipQueueAfter.effects))

\* C33: null and undefined partial states are no-ops. An UpdateState or
\* CaptureUpdate update whose payload is null or undefined, or whose updater
\* function returns null or undefined, leaves the state identical to the
\* previous state (the same object), and still counts as applied: its callback
\* is queued, and it is not carried over unless an earlier update was skipped.
C33_NullPartialState ==
    [][LastAppliesNull =>
         /\ MemoAfter = StateBeforeLast
         /\ last'.same # <<>>
         /\ last'.same[Len(last'.same)]
         /\ last'.applied[Len(last'.applied)] = LastSufficient.eventTime
         /\ LastSufficient.callback # Null
               => /\ LastSufficient.eventTime \in EffectTimesAfter
                  /\ Callback \in fibers'[workInProgress'].flags
         /\ last'.skipped = <<>> => WipQueueAfter.firstBaseUpdate = Null
      ]_vars

\* C33 witness: a pass applied {count: 1} and then an update with a callback
\* whose updater function returned undefined: the state is the one the first
\* update left, and the callback of the second is queued.
C33_Witness ==
    /\ last.op = "process"
    /\ last.applied = <<1, 2>>
    /\ last.same = <<FALSE, TRUE>>
    /\ Len(history) = 2
    /\ history[2].payload.kind = "und"
    /\ fibers[workInProgress].memoizedState = [count |-> 1, log |-> <<>>]
    /\ Len(WipQueue.effects) = 1
    /\ heap[WipQueue.effects[1]].eventTime = 2


\* The pass of this step applies a ForceUpdate update.
AppliesForceUpdate == \E i \in 1..Len(SuffList) : SuffList[i].tag = ForceUpdate

\* C34: the force-update marker reflects only the most recent pass.
\* processUpdateQueue resets it on entry, so after a pass
\* checkHasForceUpdateAfterProcessing() is true if and only if the pass
\* applied a ForceUpdate update; a ForceUpdate that the pass skipped, or that
\* an earlier pass applied, does not make it true.
C34_ForceMarker ==
    [][IsPass => (checkHasForceUpdateAfterProcessing' <=> AppliesForceUpdate)]_vars

\* C34 witness: two ForceUpdate updates were enqueued and two passes have run;
\* the latest pass skipped one of them and applied none, and the marker is
\* false.
C34_Witness ==
    /\ last.op = "process"
    /\ passes = 2
    /\ ~checkHasForceUpdateAfterProcessing
    /\ \E i \in 1..Len(history) :
          /\ history[i].tag = ForceUpdate
          /\ history[i].eventTime \in Elems(last.skipped)
    /\ \E i \in 1..Len(history) :
          /\ history[i].tag = ForceUpdate
          /\ history[i].eventTime \notin Elems(last.skipped)


\* The pass of this step finds the queue empty: no base update and no pending
\* update.
IsEmptyPass ==
    /\ IsPass
    /\ WipQueue.firstBaseUpdate = Null
    /\ shared.pending = Null

\* C35: processing an empty queue changes nothing. When the queue has no base
\* update and shared.pending is null, processUpdateQueue leaves the fiber's
\* memoizedState, lanes and flags, the queue's baseState, base list and
\* effects, and queue.shared unchanged, whatever renderLanes is and also when
\* shared.interleaved is not empty.
C35_EmptyQueue ==
    [][IsEmptyPass =>
         /\ fibers'[workInProgress].memoizedState = fibers[workInProgress].memoizedState
         /\ fibers'[workInProgress].lanes = fibers[workInProgress].lanes
         /\ fibers'[workInProgress].flags = fibers[workInProgress].flags
         /\ WipQueueAfter = WipQueue
         /\ shared' = shared
         /\ heap' = heap
      ]_vars

\* C35 witness: a pass has run over an empty queue whose interleaved list
\* holds an update and whose shared lanes are entangled; both are still
\* there.
C35_Witness ==
    /\ last.op = "process"
    /\ ~last.walked
    /\ WipQueue.firstBaseUpdate = Null
    /\ shared.pending = Null
    /\ shared.interleaved # Null
    /\ shared.lanes # NoLanes


\* ================================================================ ReactLazy
\* The module objects a thenable may fulfil with (one has no default export)
\* and the reasons it may reject with.
ModuleObjects == {[default |-> "Component"], [default |-> "undefined"]}
Reasons == {"error"}
NoModule == [default |-> "none"]
\* A call of one of the two callbacks handed to thenable.then.
Settlements ==
    {[fulfil |-> TRUE, moduleObject |-> m, error |-> "none"] : m \in ModuleObjects}
       \cup {[fulfil |-> FALSE, moduleObject |-> NoModule, error |-> e] : e \in Reasons}
\* What a thenable may do inside `then`: nothing, or call the callbacks.
SyncSettlements ==
    {<<>>} \cup {<<s>> : s \in Settlements}
           \cup {<<s, t>> : s \in Settlements, t \in Settlements}

\* The fulfilment callback: moduleObject => { ... }
onFulfilled(payload, moduleObject) ==
    IF payload._status = Pending
    THEN [_status |-> Resolved, _result |-> moduleObject.default]
    ELSE payload

\* A rejection callback without the check of the status.
onRejectedUnchecked(payload, error) ==
    [_status |-> Rejected, _result |-> error]

\* The rejection callback: error => { ... }
onRejected(payload, error) ==
    IF payload._status = Pending
    THEN [_status |-> Rejected, _result |-> error]
    ELSE payload

\* The thenable calls one of its callbacks; trace keeps the payload after
\* every call.
Settled(st, s) ==
    [st EXCEPT !.payload = IF s.fulfil THEN onFulfilled(st.payload, s.moduleObject)
                           ELSE onRejected(st.payload, s.error),
               !.trace = Append(st.trace,
                                IF s.fulfil THEN onFulfilled(st.payload, s.moduleObject)
                                ELSE onRejected(st.payload, s.error))]

RECURSIVE SettledAll(_, _)
SettledAll(st, ss) ==
    IF ss = <<>> THEN st ELSE SettledAll(Settled(st, Head(ss)), Tail(ss))

\* The payload is uninitialized: ctor is called, the payload becomes pending
\* on the thenable, and `then` is called, inside which the thenable may call
\* the callbacks (sync).
Started(st, sync) ==
    SettledAll([st EXCEPT !.payload = [_status |-> Pending, _result |-> Thenable],
                          !.trace = Append(st.trace,
                                           [_status |-> Pending, _result |-> Thenable]),
                          !.ctorCalls = st.ctorCalls + 1,
                          !.thenCalls = st.thenCalls + 1],
               sync)

\* A call that goes through the first branch again while the payload is
\* pending.
StartedIfUnresolvedAgain(st, sync) ==
    IF st.payload._status \in {Uninitialized, Pending} THEN Started(st, sync) ELSE st

\* if (payload._status === Uninitialized) { ... }
StartedIfUninitialized(st, sync) ==
    IF st.payload._status = Uninitialized THEN Started(st, sync) ELSE st

\* Completed that returns payload._result whenever the payload is not pending.
CompletedReturningRejected(st) ==
    [payload |-> st.payload, ctorCalls |-> st.ctorCalls, thenCalls |-> st.thenCalls,
     trace |-> st.trace,
     returned |-> st.payload._status # Pending,
     value |-> st.payload._result]

\* The end of lazyInitializer: it returns payload._result or throws it.
Completed(st) ==
    [payload |-> st.payload, ctorCalls |-> st.ctorCalls, thenCalls |-> st.thenCalls,
     trace |-> st.trace,
     returned |-> st.payload._status = Resolved,
     value |-> st.payload._result]

\* lazyInitializer(payload), with what the thenable does inside `then`.
LazyInitialized(payload, ctorCalls, thenCalls, sync) ==
    Completed(
        StartedIfUninitialized(
            [payload |-> payload, ctorCalls |-> ctorCalls, thenCalls |-> thenCalls,
             trace |-> <<payload>>],
            sync))

LazyEffects(c, r) ==
    /\ lazies' = [lazies EXCEPT !.payload[c] = r.payload,
                                !.ctorCalls[c] = r.ctorCalls,
                                !.thenCalls[c] = r.thenCalls,
                                !.inits[c] = @ + 1,
                                !.last = [op |-> "_init", c |-> c, trace |-> r.trace,
                                          returned |-> r.returned, value |-> r.value,
                                          first |-> lazies.inits[c] = 0]]
    /\ UNCHANGED <<queueVars, children, container>>

\* lazyType._init(lazyType._payload) on lazy component c.
lazyInitializer(c, sync) ==
    /\ lazies.inits[c] < MaxInits
    /\ LazyEffects(c, LazyInitialized(lazies.payload[c], lazies.ctorCalls[c],
                                      lazies.thenCalls[c], sync))

\* The thenable of lazy component c calls one of the callbacks it was given,
\* after `then` has returned.
settle(c, s) ==
    /\ lazies.thenCalls[c] > 0
    /\ lazies.settles[c] < MaxSettles
    /\ lazies' = [lazies EXCEPT
                    !.payload[c] = Settled([payload |-> lazies.payload[c], trace |-> <<>>],
                                           s).payload,
                    !.settles[c] = @ + 1,
                    !.last = [op |-> "settle", c |-> c, call |-> s,
                              trace |-> <<lazies.payload[c],
                                          Settled([payload |-> lazies.payload[c],
                                                   trace |-> <<>>], s).payload>>]]
    /\ UNCHANGED <<queueVars, children, container>>

NextLazy ==
    \/ \E c \in 1..NumLazy, sync \in SyncSettlements : lazyInitializer(c, sync)
    \/ \E c \in 1..NumLazy, s \in Settlements : settle(c, s)

SpecLazy == InitTree /\ [][NextLazy]_vars


\* ---------------------------------------------------------------- C36
IsLazyStep == lazies' # lazies
LazyBefore == lazies.payload[lazies'.last.c]
LazyAfter == lazies'.payload[lazies'.last.c]
\* The moves of _status the status machine allows.
StatusMoves == {<<Uninitialized, Pending>>, <<Pending, Resolved>>, <<Pending, Rejected>>}
Terminal(payload) == payload._status \in {Resolved, Rejected}
\* Every change of the payload along a trace is an allowed move of _status,
\* and a terminal payload is never changed.
LegalTrace(trace) ==
    \A i \in 1..(Len(trace) - 1) :
        /\ trace[i + 1] # trace[i]
              => <<trace[i]._status, trace[i + 1]._status>> \in StatusMoves
        /\ Terminal(trace[i]) => trace[i + 1] = trace[i]

\* C36: over every _init call and every call of a thenable's callbacks, the
\* payload's _status only moves Uninitialized -> Pending, Pending -> Resolved
\* or Pending -> Rejected; once it is Resolved or Rejected no later callback,
\* fulfilment or rejection, changes _status or _result, and no other lazy
\* component's payload is touched.
C36_LazyStatusMachine ==
    [][IsLazyStep =>
          /\ lazies'.last.trace[1] = LazyBefore
          /\ lazies'.last.trace[Len(lazies'.last.trace)] = LazyAfter
          /\ LegalTrace(lazies'.last.trace)
          /\ (Terminal(LazyBefore) => LazyAfter = LazyBefore)
          /\ \A c \in 1..NumLazy :
                c # lazies'.last.c => lazies'.payload[c] = lazies.payload[c]]_vars

\* A thenable that had fulfilled called the rejection callback afterwards, and
\* the payload is still Resolved with the module's default export.
C36_Witness ==
    /\ lazies.last.op = "settle"
    /\ ~lazies.last.call.fulfil
    /\ lazies.last.trace[1]._status = Resolved
    /\ lazies.payload[lazies.last.c] = [_status |-> Resolved, _result |-> "Component"]

\* ---------------------------------------------------------------- C37
\* C37: whatever number of _init calls were made on a payload and however
\* they were interleaved with the thenable's callbacks, ctor has been called
\* exactly once and `then` subscribed exactly once as soon as one _init call
\* was made, and neither before it.
C37_LoaderRunsOnce ==
    \A c \in 1..NumLazy :
        /\ lazies.ctorCalls[c] = (IF lazies.inits[c] > 0 THEN 1 ELSE 0)
        /\ lazies.thenCalls[c] = lazies.ctorCalls[c]

\* _init was called MaxInits times on a payload whose thenable called its
\* callbacks MaxSettles times, and the payload is Rejected.
C37_Witness ==
    \E c \in 1..NumLazy :
        /\ lazies.inits[c] = MaxInits
        /\ lazies.settles[c] = MaxSettles
        /\ lazies.ctorCalls[c] = 1
        /\ lazies.payload[c]._status = Rejected

\* ---------------------------------------------------------------- C38
IsInit == IsLazyStep /\ lazies'.last.op = "_init"
DefaultExports == {m.default : m \in ModuleObjects}
\* C38: an _init call returns exactly when the payload is Resolved at its end,
\* and then returns the module's default export; otherwise it throws
\* payload._result, the thenable while Pending and the rejection reason once
\* Rejected. When the thenable settles inside `then`, the first call already
\* returns or throws the settled result.
C38_InitReturnsOrThrows ==
    [][IsInit =>
          /\ lazies'.last.returned <=> LazyAfter._status = Resolved
          /\ lazies'.last.value = LazyAfter._result
          /\ lazies'.last.returned => lazies'.last.value \in DefaultExports
          /\ LazyAfter._status = Pending => lazies'.last.value = Thenable
          /\ LazyAfter._status = Rejected => lazies'.last.value \in Reasons
          /\ LazyAfter._status # Uninitialized
          /\ (lazies'.last.first /\ Len(lazies'.last.trace) > 2)
                => /\ Terminal(LazyAfter)
                   /\ lazies'.last.value = lazies'.last.trace[3]._result]_vars

\* The first _init call on a payload returned the default export: the
\* thenable fulfilled inside `then`.
C38_Witness ==
    /\ lazies.last.op = "_init"
    /\ lazies.last.first
    /\ lazies.last.returned
    /\ lazies.last.value = "Component"
    /\ Len(lazies.last.trace) > 2

====
